---------------------------- MODULE Spec2Model ----------------------------
(***************************************************************************)
(* A model of the viennalytics opening pipeline: the ECO opening matcher   *)
(* (backend/eco_utils.py), the PGN de-duplicating parser                   *)
(* (backend/1-pgn_to_csv/convert_pgn_csv.py), the per-variation statistics *)
(* aggregator (backend/3-opening_stats/opening_stats.py), the continuation *)
(* detector (backend/4-visualization/popular_moves_analyzer.py) and the    *)
(* engine pool with its batch evaluation (backend/stockfish_engine.py).    *)
(*                                                                         *)
(* Python strings are modelled as sequences of one-character strings, so   *)
(* that split, strip, slicing and concatenation are computed and not       *)
(* assumed.  Each component has its own specification over the shared      *)
(* variable list; the variables of the other components stay at their      *)
(* idle values.                                                            *)
(***************************************************************************)
EXTENDS Integers, Sequences, FiniteSets, TLC

VARIABLES
    \* ---- eco_utils.py ----
    eco_openings,    \* module global: list of <<name, flat_moves>>
    opening_cache,   \* lru_cache of cached_get_opening: list of <<key, value>>, least recent first
    call_moves,      \* argument `moves` of the current/last matcher call
    call_index,      \* argument `eco_openings` of the current/last matcher call
    call_result,     \* value returned by the last matcher call
    call_hit,        \* whether the last get_opening call was served from the cache
    ncalls,          \* number of matcher calls made so far
    m_pc,            \* "ready" | "done" for the single-call specification
    \* ---- convert_pgn_csv.py: PGNParser ----
    seen_games,      \* self.seen_games: set of signature strings
    duplicates,      \* self.duplicates
    p_game,          \* headers and move text of the last game given to parse_game
    p_result,        \* what the last parse_game call did: "none yet" | "record" | "None" | "raise"
    p_record,        \* the game_data returned by the last call (when p_result = "record")
    p_presented,     \* signature tuples of the valid games presented so far
    p_seen_before,   \* whether an earlier valid game had the last game's signature tuple
    p_dup_before,    \* self.duplicates before the last call
    p_calls,         \* parse_game calls made so far
    \* ---- opening_stats.py: main ----
    ag_groups,       \* the (opening, variation) groups of df_filtered.groupby, in order
    ag_idx,          \* position of the next group of the for loop
    openings_dict,   \* openings_dict, as a list of [opening, variations] in insertion order
    output_list,     \* the list written to OUTPUT_FILE
    ag_last,         \* what the loop body did with the last group: "none" | "skipped" | "emitted" | "raised"
    ag_pc,           \* "loop" | "written" | "aborted"
    \* ---- popular_moves_analyzer.py: flexible_get_next_moves ----
    move_lists,      \* argument move_lists
    opening_moves,   \* argument opening_moves
    min_games,       \* argument min_games
    opening_length,  \* local opening_length when the function returns
    next_moves,      \* local next_moves when the function returns
    tried,           \* the lengths at which next moves were collected, in order
    cd_result,       \* the returned <<Counter, opening_length>>
    cd_pc,           \* "start" | "done" | "tester_start" | "tester_done"
    \* ---- stockfish_engine.py ----
    stockfish_available, \* module global STOCKFISH_AVAILABLE
    engine_pool,     \* module global engine_pool: "None" | "pool"
    pool_size,       \* engine_pool.pool_size, 0 when there is no pool
    engines,         \* engine_pool.engines: the free list of handles
    pool_lock,       \* engine_pool.lock: 0 when free, else the thread holding it
    handles_made,    \* number of Stockfish(...) objects constructed so far
    eval_cache,      \* lru_cache of cached_get_stockfish_eval: fen -> cached value
    callers,         \* per thread: the position and the locals of its current call
    engine_calls,    \* number of evaluation calls made so far
    pool_users,      \* number of threads the application runs evaluation calls on
    failed_fens,     \* the fens whose cached value is the None of a call that failed
    cleanup_pc,      \* position of cleanup_stockfish: "idle" | "locked" | "cleared" | "done"
    \* ---- stockfish_engine.py: batch_get_stockfish_evals ----
    fen_list,        \* argument fen_list
    results,         \* local results
    futures,         \* future_to_idx: per submitted index its state, its value or exception,
                     \* and the worker thread that took it
    completed,       \* the indexes as_completed has yielded so far, in order
    batch_return,    \* the returned list
    batch_pc         \* "start" | "submitting" | "collect" | "returned" | "raised"

matcherVars == <<eco_openings, opening_cache, call_moves, call_index,
                 call_result, call_hit, ncalls, m_pc>>

parserVars == <<seen_games, duplicates, p_game, p_result, p_record,
                p_presented, p_seen_before, p_dup_before, p_calls>>

aggVars == <<ag_groups, ag_idx, openings_dict, output_list, ag_last, ag_pc>>

cdVars == <<move_lists, opening_moves, min_games, opening_length, next_moves,
            tried, cd_result, cd_pc>>

engineVars == <<stockfish_available, engine_pool, pool_size, engines, pool_lock, handles_made,
               eval_cache, callers, engine_calls, pool_users, failed_fens, cleanup_pc>>

batchVars == <<fen_list, results, futures, completed, batch_return, batch_pc>>

vars == <<matcherVars, parserVars, aggVars, cdVars, engineVars, batchVars>>

-----------------------------------------------------------------------------
(* Bounds of the model *)

MaxMoveChars == 4     \* longest `moves` string, in characters
MaxEntries   == 2     \* most entries of an opening index
MaxCalls     == 3     \* get_opening calls in one run of the cached matcher
MaxParseCalls == 3    \* parse_game calls on one PGNParser
MaxGroupGames == 12   \* most games of one (opening, variation) group
MaxOther      == 1    \* most games of a group whose result is not white/black/draw
MaxGames      == 3    \* most games of one move_lists argument
MaxThreads    == 2    \* threads calling into the engine pool
PoolSize      == 1    \* pool_size of the StockfishPool
MaxEngineCalls == 2   \* evaluation calls in one run of the engine pool
MaxBatch      == 3    \* longest fen_list of a batch
MaxWorkers    == 2    \* max_workers of the batch's ThreadPoolExecutor

-----------------------------------------------------------------------------
(* Strings *)

Chars == {"a", "b", "|", " "}

\* the characters Python's str.strip() removes, restricted to Chars
Whitespace == {" "}

StringsUpTo(n) == UNION {[1..k -> Chars] : k \in 0..n}

\* float('nan') / None as a `moves` argument: a value no string equals
NaN == <<"NaN">>

\* pd.isna(moves)
IsNa(s) == s = NaN

RECURSIVE LStrip(_)
LStrip(s) ==
    IF s # <<>> /\ Head(s) \in Whitespace THEN LStrip(Tail(s)) ELSE s

RECURSIVE RStrip(_)
RStrip(s) ==
    IF s # <<>> /\ s[Len(s)] \in Whitespace
    THEN RStrip(SubSeq(s, 1, Len(s) - 1))
    ELSE s

\* str.strip()
Strip(s) == RStrip(LStrip(s))

\* index of the first occurrence of character c in s, 0 when absent (str.find + 1)
RECURSIVE FindFrom(_, _, _)
FindFrom(s, c, i) ==
    IF i > Len(s) THEN 0
    ELSE IF s[i] = c THEN i
    ELSE FindFrom(s, c, i + 1)

Find(s, c) == FindFrom(s, c, 1)

\* str.split(sep) for a one-character separator: always at least one field
RECURSIVE Split(_, _)
Split(s, sep) ==
    LET i == Find(s, sep) IN
    IF i = 0 THEN <<s>>
    ELSE <<SubSeq(s, 1, i - 1)>> \o Split(SubSeq(s, i + 1, Len(s)), sep)

\* [f(x) for x in xs if p(x)] building blocks
RECURSIVE MapStrip(_)
MapStrip(xs) ==
    IF xs = <<>> THEN <<>> ELSE <<Strip(Head(xs))>> \o MapStrip(Tail(xs))

NonEmpty(x) == x # <<>>

-----------------------------------------------------------------------------
(* eco_utils.py: get_opening_uncached *)

\* "Unknown Opening"
UnknownOpening == <<"U", "n", "k", "n", "o", "w", "n", " ", "O", "p", "e", "n", "i", "n", "g">>

\* best_match = ("Unknown Opening", 0)
BestMatchInit_Blank == <<<<>>, 0>>
BestMatchInit == <<UnknownOpening, 0>>

\* move_list = [move.strip() for move in moves.split('|') if move.strip()]
CleanMoveList(moves) == SelectSeq(MapStrip(Split(moves, "|")), NonEmpty)

\* len(move_list) >= len(eco_moves) and move_list[:len(eco_moves)] == eco_moves
PrefixMatches_FirstOnly(move_list, eco_moves) ==
    /\ Len(move_list) >= 1
    /\ move_list[1] = eco_moves[1]
PrefixMatches(move_list, eco_moves) ==
    /\ Len(move_list) >= Len(eco_moves)
    /\ SubSeq(move_list, 1, Len(eco_moves)) = eco_moves

\* if len(eco_moves) > best_match[1]
IsBetterMatch_OrEqual(len, bestLen) == len >= bestLen
IsBetterMatch_Any(len, bestLen) == TRUE
IsBetterMatch(len, bestLen) == len > bestLen

\* if len(eco_moves) == len(move_list): break
IsPerfectMatch_First(len, inputLen) == TRUE
IsPerfectMatch(len, inputLen) == len = inputLen

\* the for loop over eco_openings, from entry i with the running best_match
RECURSIVE ScanOpenings(_, _, _, _)
ScanOpenings(move_list, eco, i, best_match) ==
    IF i > Len(eco) THEN best_match
    ELSE LET name      == eco[i][1]
             eco_moves == eco[i][2]
         IN IF /\ PrefixMatches(move_list, eco_moves)
               /\ IsBetterMatch(Len(eco_moves), best_match[2])
            THEN IF IsPerfectMatch(Len(eco_moves), Len(move_list))
                 THEN <<name, Len(eco_moves)>>
                 ELSE ScanOpenings(move_list, eco, i + 1, <<name, Len(eco_moves)>>)
            ELSE ScanOpenings(move_list, eco, i + 1, best_match)

get_opening_uncached(moves, eco) ==
    IF moves = <<>> \/ IsNa(moves) THEN UnknownOpening
    ELSE LET raw == Split(moves, "|") IN
         IF raw = <<>> THEN UnknownOpening
         ELSE ScanOpenings(CleanMoveList(moves), eco, 1, BestMatchInit)[1]

-----------------------------------------------------------------------------
(* eco_utils.py: load_eco_data, create_eco_lookup *)

\* one-character move tokens as strings
TokA == <<"a">>
TokB == <<"b">>

\* the flat move lists re.findall yields for an entry's move text; <<>> is an
\* entry whose text holds no numbered move
FlatMoveLists == {<<>>, <<TokA>>, <<TokB>>, <<TokA, TokB>>, <<TokA, TokA>>,
                  <<TokA, TokB, TokA>>}

\* entry["name"] of the k-th entry of the ECO files
EntryName(k) == <<"N", ToString(k)>>

\* eco_data.values() in dict order: the k-th entry is <<name, flat_moves>>;
\* the empty sequence is also what load_eco_data returns when no file is found
EcoData ==
    UNION {{[k \in 1..n |-> <<EntryName(k), fm[k]>>] : fm \in [1..n -> FlatMoveLists]}
           : n \in 0..MaxEntries}

\* if flat_moves: eco_openings.append((entry["name"], flat_moves))
HasFlatMoves_Always(entry) == TRUE
HasFlatMoves(entry) == entry[2] # <<>>

\* the eco_openings list built by create_eco_lookup: load order is kept
create_eco_lookup(eco_data) == SelectSeq(eco_data, HasFlatMoves)

EcoIndexes == {create_eco_lookup(d) : d \in EcoData}

MoveStrings == StringsUpTo(MaxMoveChars) \cup {NaN}

-----------------------------------------------------------------------------
(* Idle values of the components a specification does not run *)

MatcherIdle ==
    /\ eco_openings = <<>>
    /\ opening_cache = <<>>
    /\ call_moves = <<>>
    /\ call_index = <<>>
    /\ call_result = <<>>
    /\ call_hit = FALSE
    /\ ncalls = 0
    /\ m_pc = "idle"

ParserIdle ==
    /\ seen_games = {}
    /\ duplicates = 0
    /\ p_game = <<>>
    /\ p_result = "none yet"
    /\ p_record = <<>>
    /\ p_presented = {}
    /\ p_seen_before = FALSE
    /\ p_dup_before = 0
    /\ p_calls = 0

AggIdle ==
    /\ ag_groups = <<>>
    /\ ag_idx = 0
    /\ openings_dict = <<>>
    /\ output_list = <<>>
    /\ ag_last = "none"
    /\ ag_pc = "idle"

CdIdle ==
    /\ move_lists = <<>>
    /\ opening_moves = <<>>
    /\ min_games = 0
    /\ opening_length = 0
    /\ next_moves = <<>>
    /\ tried = <<>>
    /\ cd_result = <<>>
    /\ cd_pc = "idle"

EngineIdle ==
    /\ stockfish_available = FALSE
    /\ engine_pool = "None"
    /\ pool_size = 0
    /\ engines = <<>>
    /\ pool_lock = 0
    /\ handles_made = 0
    /\ eval_cache = <<>>
    /\ callers = <<>>
    /\ engine_calls = 0
    /\ pool_users = 0
    /\ failed_fens = {}
    /\ cleanup_pc = "idle"

BatchIdle ==
    /\ fen_list = <<>>
    /\ results = <<>>
    /\ futures = <<>>
    /\ completed = <<>>
    /\ batch_return = <<>>
    /\ batch_pc = "idle"

-----------------------------------------------------------------------------
(* Single call of get_opening_uncached on drawn arguments *)

InitMatch ==
    /\ eco_openings = <<>>
    /\ opening_cache = <<>>
    /\ call_moves \in MoveStrings
    /\ call_index \in EcoIndexes
    /\ call_result = <<>>
    /\ call_hit = FALSE
    /\ ncalls = 0
    /\ m_pc = "ready"
    /\ ParserIdle /\ AggIdle /\ CdIdle /\ EngineIdle /\ BatchIdle

CallUncached ==
    /\ m_pc = "ready"
    /\ call_result' = get_opening_uncached(call_moves, call_index)
    /\ ncalls' = ncalls + 1
    /\ m_pc' = "done"
    /\ UNCHANGED <<eco_openings, opening_cache, call_moves, call_index, call_hit>>
    /\ UNCHANGED <<parserVars, aggVars, cdVars, engineVars, batchVars>>

NextMatch == CallUncached

SpecMatch == InitMatch /\ [][NextMatch]_vars

-----------------------------------------------------------------------------
(* get_opening through cached_get_opening (functools.lru_cache) *)

CACHE_SIZE == 5000

\* position of key in the cache list, 0 when absent
RECURSIVE CachePos(_, _, _)
CachePos(cache, key, i) ==
    IF i > Len(cache) THEN 0
    ELSE IF cache[i][1] = key THEN i
    ELSE CachePos(cache, key, i + 1)

RemoveAt(seq, i) == SubSeq(seq, 1, i - 1) \o SubSeq(seq, i + 1, Len(seq))

\* lru_cache insert: append as most recent, evict the least recent when full
CacheInsert(cache, key, value) ==
    LET grown == Append(cache, <<key, value>>) IN
    IF Len(grown) > CACHE_SIZE THEN Tail(grown) ELSE grown

\* the list cached_get_opening matches against: the module global
CachedIndex_Passed(passed) == passed
CachedIndex(passed) == eco_openings

\* `moves` strings and eco_openings arguments callers pass
CallStrings == {<<>>, <<"a">>, <<"a", "|", "b">>, <<" ", "a">>, <<"b">>}

PassedIndexes ==
    {<<>>,
     <<<<EntryName(1), <<TokA>>>>>>,
     <<<<EntryName(1), <<TokA>>>>, <<EntryName(2), <<TokA, TokB>>>>>>,
     <<<<EntryName(1), <<TokB>>>>, <<EntryName(2), <<TokA>>>>>>}

InitGetOpening ==
    /\ eco_openings \in EcoIndexes
    /\ opening_cache = <<>>
    /\ call_moves = <<>>
    /\ call_index = <<>>
    /\ call_result = <<>>
    /\ call_hit = FALSE
    /\ ncalls = 0
    /\ m_pc = "cached"
    /\ ParserIdle /\ AggIdle /\ CdIdle /\ EngineIdle /\ BatchIdle

\* get_opening(moves, eco_openings): a cache hit returns the stored value and
\* makes the key most recent
GetOpeningHit(moves, passed) ==
    LET pos == CachePos(opening_cache, moves, 1) IN
    /\ pos # 0
    /\ call_result' = opening_cache[pos][2]
    /\ opening_cache' = Append(RemoveAt(opening_cache, pos), opening_cache[pos])
    /\ call_hit' = TRUE

\* a miss stores the value get_opening_uncached returned under `moves`
StoreMiss(moves, value) ==
    /\ CachePos(opening_cache, moves, 1) = 0
    /\ call_result' = value
    /\ opening_cache' = CacheInsert(opening_cache, moves, value)
    /\ call_hit' = FALSE

\* a miss runs get_opening_uncached and stores the result under `moves`
GetOpeningMiss(moves, passed) ==
    StoreMiss(moves, get_opening_uncached(moves, CachedIndex(passed)))

GetOpening ==
    \E moves \in CallStrings, passed \in PassedIndexes :
        /\ m_pc = "cached"
        /\ ncalls < MaxCalls
        /\ \/ GetOpeningHit(moves, passed)
           \/ GetOpeningMiss(moves, passed)
        /\ call_moves' = moves
        /\ call_index' = passed
        /\ ncalls' = ncalls + 1
        /\ UNCHANGED <<eco_openings, m_pc>>
        /\ UNCHANGED <<parserVars, aggVars, cdVars, engineVars, batchVars>>

NextGetOpening == GetOpening

SpecGetOpening == InitGetOpening /\ [][NextGetOpening]_vars

-----------------------------------------------------------------------------
(* Claims on the matcher *)

\* p is a prefix of s, token by token
IsPrefixOf(p, s) ==
    /\ Len(p) <= Len(s)
    /\ \A k \in 1..Len(p) : p[k] = s[k]

\* the cleaned move sequence a `moves` string stands for
InputMoves(moves) == IF IsNa(moves) THEN <<>> ELSE CleanMoveList(moves)

\* positions of the index entries that are a prefix of the input
PrefixEntries(moves, eco) ==
    {i \in 1..Len(eco) : IsPrefixOf(eco[i][2], InputMoves(moves))}

\* those of the greatest matched length
LongestEntries(moves, eco) ==
    {i \in PrefixEntries(moves, eco) :
        \A j \in PrefixEntries(moves, eco) : Len(eco[j][2]) <= Len(eco[i][2])}

MinOf(S) == CHOOSE x \in S : \A y \in S : x <= y

\* the name the specification asks for
BestName(moves, eco) ==
    IF PrefixEntries(moves, eco) = {} THEN UnknownOpening
    ELSE eco[MinOf(LongestEntries(moves, eco))][1]

\* C1: longest prefix wins: the name returned belongs to an entry that is a
\* prefix of the input and no prefix entry is strictly longer; the result is
\* "Unknown Opening" exactly when no entry is a prefix of the input.
C1_LongestPrefixWins ==
    m_pc = "done" =>
        /\ (call_result = UnknownOpening) <=> (PrefixEntries(call_moves, call_index) = {})
        /\ PrefixEntries(call_moves, call_index) # {} =>
              \E i \in LongestEntries(call_moves, call_index) :
                  call_index[i][1] = call_result

C1_Witness ==
    /\ m_pc = "done"
    /\ Cardinality({Len(call_index[i][2]) : i \in PrefixEntries(call_moves, call_index)}) = 2
    /\ call_result # UnknownOpening

\* C2: on a tie for the greatest matched length the entry earliest in load
\* order is returned.
C2_TieKeepsEarliest ==
    (m_pc = "done" /\ PrefixEntries(call_moves, call_index) # {}) =>
        call_result = call_index[MinOf(LongestEntries(call_moves, call_index))][1]

C2_Witness ==
    /\ m_pc = "done"
    /\ Cardinality(LongestEntries(call_moves, call_index)) = 2
    /\ call_result = call_index[MinOf(LongestEntries(call_moves, call_index))][1]

\* C3: with an empty opening database every get_opening call returns
\* "Unknown Opening".
C3_EmptyDatabaseUnknown ==
    (m_pc = "cached" /\ ncalls > 0 /\ eco_openings = <<>>) =>
        call_result = UnknownOpening

C3_Witness ==
    /\ m_pc = "cached"
    /\ eco_openings = <<>>
    /\ ncalls = MaxCalls
    /\ InputMoves(call_moves) # <<>>
    /\ call_hit
    /\ call_result = UnknownOpening

\* C4: get_opening(moves, eco_openings) returns the best match among the
\* entries of the list passed as its second argument.
C4_UsesPassedIndex ==
    (m_pc = "cached" /\ ncalls > 0) =>
        call_result = BestName(call_moves, call_index)

\* the matcher without early termination: every entry from i on is examined
\* and replaces the running best match only when strictly longer
RECURSIVE FullScan(_, _, _, _)
FullScan(move_list, eco, i, best_match) ==
    IF i > Len(eco) THEN best_match
    ELSE IF IsPrefixOf(eco[i][2], move_list) /\ Len(eco[i][2]) > best_match[2]
         THEN FullScan(move_list, eco, i + 1, <<eco[i][1], Len(eco[i][2])>>)
         ELSE FullScan(move_list, eco, i + 1, best_match)

\* positions of the entries whose moves are the whole input
PerfectEntries(moves, eco) ==
    {i \in 1..Len(eco) : eco[i][2] = InputMoves(moves)}

\* C30: early termination is result-preserving: stopping at the first entry
\* whose matched length equals the input length returns the same name as the
\* scan of the whole ordered entry list with the strictly-greater rule.
C30_EarlyTerminationPreserves ==
    m_pc = "done" =>
        call_result = FullScan(InputMoves(call_moves), call_index, 1,
                               <<UnknownOpening, 0>>)[1]

\* the loop broke at a perfect match in the first entry and left out a second
\* entry that matches the input as well (a second perfect match or a shorter
\* prefix)
C30_Witness ==
    /\ m_pc = "done"
    /\ Len(call_index) = 2
    /\ PerfectEntries(call_moves, call_index) # {}
    /\ \/ PerfectEntries(call_moves, call_index) = {1, 2}
       \/ /\ PerfectEntries(call_moves, call_index) = {1}
          /\ 2 \in PrefixEntries(call_moves, call_index)
    /\ call_result = call_index[MinOf(PerfectEntries(call_moves, call_index))][1]

-----------------------------------------------------------------------------
(* convert_pgn_csv.py: PGNParser *)

\* a string of n copies of the characters of unit, cut to n characters
Repeat(unit, n) == [i \in 1..n |-> unit[((i - 1) % Len(unit)) + 1]]

\* the characters of s at the positions that satisfy Keep, in order
KeepPositions(s, Keep(_)) ==
    LET indexed == [i \in 1..Len(s) |-> <<i, s[i]>>]
        Test(p) == Keep(p[1])
        kept    == SelectSeq(indexed, Test)
    IN [i \in 1..Len(kept) |-> kept[i][2]]

\* position i lies in a closed brace comment: some "{" at k <= i has no "}"
\* between it and i, and a "}" closes it at or after i
InComment(s, i) ==
    \E k \in 1..i :
        /\ s[k] = "{"
        /\ \A m \in (k + 1)..(i - 1) : s[m] # "}"
        /\ \E c \in (IF i > k THEN i ELSE k + 1)..Len(s) : s[c] = "}"

\* re.sub(r"\{[^}]*\}", "", text): drop each brace comment that is closed
RemoveComments(s) ==
    LET Keep(i) == ~InComment(s, i) IN KeepPositions(s, Keep)

\* re.sub(r"[!?]+", "", text)
NotAnnotation(c) == c \notin {"!", "?"}
RemoveAnnotations(s) == SelectSeq(s, NotAnnotation)

\* " ".join(text.split()): of each whitespace run between two words the first
\* character stays, as one space; leading and trailing runs go
NormalizeSpaces(s) ==
    LET Keep(i) ==
            \/ s[i] \notin Whitespace
            \/ /\ i > 1
               /\ s[i - 1] \notin Whitespace
               /\ \E j \in (i + 1)..Len(s) : s[j] \notin Whitespace
        kept == KeepPositions(s, Keep)
    IN [i \in 1..Len(kept) |-> IF kept[i] \in Whitespace THEN " " ELSE kept[i]]

\* PGNParser.clean_moves
clean_moves(moves_text) ==
    IF moves_text = <<>> THEN <<>>
    ELSE Strip(NormalizeSpaces(RemoveAnnotations(RemoveComments(moves_text))))

Digits == {"0", "1", "2", "3", "4", "5", "6", "7", "8", "9"}

DigitValue(c) ==
    CASE c = "0" -> 0 [] c = "1" -> 1 [] c = "2" -> 2 [] c = "3" -> 3
      [] c = "4" -> 4 [] c = "5" -> 5 [] c = "6" -> 6 [] c = "7" -> 7
      [] c = "8" -> 8 [] c = "9" -> 9

\* the first maximal run of digits of s (re.findall(r"\d+", s)[0]), <<>> if none
RECURSIVE DigitRun(_)
DigitRun(s) ==
    IF s = <<>> \/ Head(s) \notin Digits THEN <<>>
    ELSE <<Head(s)>> \o DigitRun(Tail(s))

RECURSIVE FirstNumber(_)
FirstNumber(s) ==
    IF s = <<>> THEN <<>>
    ELSE IF Head(s) \in Digits THEN DigitRun(s)
    ELSE FirstNumber(Tail(s))

\* int() of a digit string
RECURSIVE ToInt(_, _)
ToInt(ds, acc) ==
    IF ds = <<>> THEN acc ELSE ToInt(Tail(ds), 10 * acc + DigitValue(Head(ds)))

ELO_MIN == 500
ELO_MAX == 3500

\* PGNParser.parse_elo: numbers[0] raises IndexError when the string holds no
\* digit (only ValueError is caught); a rating out of range falls off the end
\* of the function and returns None
parse_elo(elo_str) ==
    IF elo_str = <<>> \/ elo_str = <<"-">> THEN [kind |-> "int", val |-> 0]
    ELSE IF FirstNumber(elo_str) = <<>> THEN [kind |-> "raise", val |-> 0]
    ELSE LET elo == ToInt(FirstNumber(elo_str), 0) IN
         IF ELO_MIN <= elo /\ elo <= ELO_MAX
         THEN [kind |-> "int", val |-> elo]
         ELSE [kind |-> "None", val |-> 0]

\* game_data["Moves"][:100]
SIGNATURE_MOVES == 100
MovesPrefix(moves) ==
    SubSeq(moves, 1, IF Len(moves) < SIGNATURE_MOVES THEN Len(moves) ELSE SIGNATURE_MOVES)

\* f"{White}|{Black}|{Result}|{Moves[:100]}"
GameSignature_NoMoves(white, black, result, moves) ==
    white \o <<"|">> \o black \o <<"|">> \o result
GameSignature(white, black, result, moves) ==
    white \o <<"|">> \o black \o <<"|">> \o result \o <<"|">> \o MovesPrefix(moves)

\* ---- the move texts of the games presented to the parser ----
\* 99 characters of move text, already clean
LongMoves == Repeat(<<"e", "4", " ">>, 99)

MoveTexts ==
    {<<"e", "4">>,
     <<"e", "4", "!", " ", " ", "{", "x", "}">>,
     LongMoves \o <<"a", "x">>,
     LongMoves \o <<"a", "y">>,
     LongMoves \o <<"b", "x">>}

\* clean_moves over the move texts presented, computed once
CleanedMoves == [t \in MoveTexts |-> clean_moves(t)]

\* all([White, Black, Result, Opening, Variant])
RequiredFields(g) ==
    /\ g.White # <<>>
    /\ g.Black # <<>>
    /\ g.Result # <<>>
    /\ g.Opening # <<>>
    /\ g.Variant # <<>>

\* the game_data dictionary built from the headers (absent header: "")
GameData(g) ==
    [White    |-> g.White,
     Black    |-> g.Black,
     WhiteElo |-> parse_elo(g.WhiteElo),
     BlackElo |-> parse_elo(g.BlackElo),
     Result   |-> g.Result,
     Opening  |-> g.Opening,
     Variant  |-> g.Variant,
     Moves    |-> CleanedMoves[g.Moves]]

EloRaises(g) ==
    \/ parse_elo(g.WhiteElo).kind = "raise"
    \/ parse_elo(g.BlackElo).kind = "raise"

\* the signature as the tuple the data model names
SignatureTuple(g) ==
    <<g.White, g.Black, g.Result, MovesPrefix(CleanedMoves[g.Moves])>>

\* a game parse_game can return: headers complete and ratings parsed
IsValidGame(g) == RequiredFields(g) /\ ~EloRaises(g)

\* ---- the games presented to the parser ----
Games ==
    [White    : {<<"a">>, <<"a", "|", "b">>},
     Black    : {<<"c">>, <<"b", "|", "c">>},
     WhiteElo : {<<"2", "5", "0", "0">>, <<"?">>},
     BlackElo : {<<"9", "9">>},
     Result   : {<<"1", "-", "0">>},
     Opening  : {<<"S">>},
     Variant  : {<<"N">>, <<>>},
     Moves    : MoveTexts]

InitParser ==
    /\ ParserIdle
    /\ MatcherIdle /\ AggIdle /\ CdIdle /\ EngineIdle /\ BatchIdle

\* bookkeeping shared by every outcome of one parse_game call
ParseCalled(g) ==
    /\ p_calls < MaxParseCalls
    /\ p_calls' = p_calls + 1
    /\ p_game' = g
    /\ p_dup_before' = duplicates
    /\ p_seen_before' = (SignatureTuple(g) \in p_presented)
    /\ p_presented' = IF IsValidGame(g)
                      THEN p_presented \cup {SignatureTuple(g)}
                      ELSE p_presented
    /\ UNCHANGED <<matcherVars, aggVars, cdVars, engineVars, batchVars>>

\* parse_elo raises while game_data is built: the call ends with the exception
ParseGameRaises ==
    \E g \in Games :
        /\ EloRaises(g)
        /\ ParseCalled(g)
        /\ p_result' = "raise"
        /\ p_record' = <<>>
        /\ UNCHANGED <<seen_games, duplicates>>

\* a required field is empty: return None
ParseGameInvalid ==
    \E g \in Games :
        /\ ~EloRaises(g)
        /\ ~RequiredFields(g)
        /\ ParseCalled(g)
        /\ p_result' = "None"
        /\ p_record' = <<>>
        /\ UNCHANGED <<seen_games, duplicates>>

\* the signature string is in seen_games: count a duplicate, return None
ParseGameDuplicate ==
    \E g \in Games :
        LET d == GameData(g) IN
        /\ ~EloRaises(g)
        /\ RequiredFields(g)
        /\ GameSignature(d.White, d.Black, d.Result, d.Moves) \in seen_games
        /\ ParseCalled(g)
        /\ duplicates' = duplicates + 1
        /\ p_result' = "None"
        /\ p_record' = <<>>
        /\ UNCHANGED <<seen_games>>

\* a new signature string: remember it and return game_data
ParseGameNew ==
    \E g \in Games :
        LET d == GameData(g) IN
        /\ ~EloRaises(g)
        /\ RequiredFields(g)
        /\ GameSignature(d.White, d.Black, d.Result, d.Moves) \notin seen_games
        /\ ParseCalled(g)
        /\ seen_games' = seen_games \cup {GameSignature(d.White, d.Black, d.Result, d.Moves)}
        /\ p_result' = "record"
        /\ p_record' = d
        /\ UNCHANGED <<duplicates>>

NextParser ==
    \/ ParseGameRaises
    \/ ParseGameInvalid
    \/ ParseGameDuplicate
    \/ ParseGameNew

SpecParser == InitParser /\ [][NextParser]_vars

\* C5: dedup idempotence: of the valid games sharing a signature tuple (White,
\* Black, Result, first 100 characters of the cleaned moves) the first one
\* presented is returned, and every later one returns None and increments the
\* duplicates counter.
C5_DedupBySignature ==
    (p_calls > 0 /\ IsValidGame(p_game)) =>
        /\ ~p_seen_before => p_result = "record"
        /\ p_seen_before => (p_result = "None" /\ duplicates = p_dup_before + 1)

-----------------------------------------------------------------------------
(* opening_stats.py: main, with eco_utils.get_proper_opening_info and       *)
(* chess_utils.get_strongest_player / has_digit                             *)

MIN_GAMES_FOR_STATISTICS == 10

UpperCase == <<"A", "B", "C", "D", "E", "F", "G", "H", "I", "J", "K", "L", "M",
               "N", "O", "P", "Q", "R", "S", "T", "U", "V", "W", "X", "Y", "Z">>
LowerCase == <<"a", "b", "c", "d", "e", "f", "g", "h", "i", "j", "k", "l", "m",
               "n", "o", "p", "q", "r", "s", "t", "u", "v", "w", "x", "y", "z">>

LowerChar(c) ==
    IF \E i \in 1..26 : UpperCase[i] = c
    THEN LowerCase[CHOOSE i \in 1..26 : UpperCase[i] = c]
    ELSE c

\* str.lower()
Lower(s) == [i \in 1..Len(s) |-> LowerChar(s[i])]

\* `sub in s` for strings
Contains(s, sub) ==
    \E k \in 0..(Len(s) - Len(sub)) : SubSeq(s, k + 1, k + Len(sub)) = sub

\* sep.join(parts)
RECURSIVE Join(_, _)
Join(parts, sep) ==
    IF parts = <<>> THEN <<>>
    ELSE IF Len(parts) = 1 THEN parts[1]
    ELSE parts[1] \o sep \o Join(Tail(parts), sep)

\* seq[:n]
Take(seq, n) == SubSeq(seq, 1, IF Len(seq) < n THEN Len(seq) ELSE n)

\* ---- string constants of the program and of the data ----
\* "?"
QuestionMark == <<"?">>
\* the labels opening_stats.py treats as not a proper name: ["?", "Unknown Opening", ""]
Placeholders == {QuestionMark, UnknownOpening, <<>>}

SicilianDefense == <<"S", "i", "c", "i", "l", "i", "a", "n">>
Najdorf == <<"N", "a", "j", "d", "o", "r", "f">>
SicilianNajdorfVariation == <<"S", "i", "c", "i", "l", "i", "a", "n", ":", " ", "N", "a", "j", "d", "o", "r", "f", ",", " ", "M", "a", "i", "n">>
SicilianAlapin == <<"S", "i", "c", "i", "l", "i", "a", "n", ":", " ", "A", "l", "a", "p", "i", "n">>
QuestionColonX == <<"?", ":", "x">>
Carlsen == <<"C", "a", "r", "l", "s", "e", "n">>
Bot1 == <<"B", "o", "t", "1">>
TokE4 == <<"e", "4">>
TokC5 == <<"c", "5">>
TokC3 == <<"c", "3">>

\* ---- chess_utils.py ----
\* the first position holding the greatest elo: max(players, key=lambda x: x[1])
ArgMaxElo_Last(players) ==
    CHOOSE i \in 1..Len(players) :
        /\ \A j \in 1..Len(players) : players[j][2] <= players[i][2]
        /\ \A j \in (i + 1)..Len(players) : players[j][2] < players[i][2]
ArgMaxElo(players) ==
    CHOOSE i \in 1..Len(players) :
        /\ \A j \in 1..Len(players) : players[j][2] <= players[i][2]
        /\ \A j \in 1..(i - 1) : players[j][2] < players[i][2]

\* None (here the empty name) for an empty list
get_strongest_player(players) ==
    IF players = <<>> THEN <<>> ELSE players[ArgMaxElo(players)][1]

has_digit(s) == \E i \in 1..Len(s) : s[i] \in Digits

\* ---- eco_utils.py: find_eco_name_and_moves ----
SearchName(opening, variation) ==
    IF variation # <<>> THEN Lower(opening \o <<":", " ">> \o variation)
    ELSE Lower(opening)

\* f"{opening}{(': ' + variation) if variation else ''}"
LabelName(opening, variation) ==
    IF variation # <<>> THEN opening \o <<":", " ">> \o variation ELSE opening

\* the for loop returns at the first entry whose lowered name equals the search
\* name; otherwise the first entry whose lowered name contains it; otherwise
\* the label itself with no moves
find_eco_name_and_moves(opening, variation, eco) ==
    LET search == SearchName(opening, variation)
        exact  == {i \in 1..Len(eco) : Lower(eco[i][1]) = search}
        cands  == {i \in 1..Len(eco) : Contains(Lower(eco[i][1]), search)}
        Min(S) == CHOOSE x \in S : \A y \in S : x <= y
    IN IF exact # {} THEN eco[Min(exact)]
       ELSE IF cands # {} THEN eco[Min(cands)]
       ELSE <<LabelName(opening, variation), <<>>>>

\* the moves of the first entry named `name`, <<>> when there is none
MovesOfName(name, eco) ==
    LET hits == {i \in 1..Len(eco) : eco[i][1] = name} IN
    IF hits = {} THEN <<>>
    ELSE eco[CHOOSE i \in hits : \A j \in hits : i <= j][2]

\* ---- eco_utils.py: get_proper_opening_info ----
\* get_opening reads the module global through the lru_cache; the global never
\* changes after load, so the cached value is the uncached one
get_proper_opening_info(opening, variation, move_list, eco) ==
    LET found    == find_eco_name_and_moves(opening, variation, eco)
        fallback == found[2] = <<>> /\ move_list # <<>>
        eco_name == IF fallback
                    THEN get_opening_uncached(Join(Take(move_list, 10), <<"|">>), eco)
                    ELSE UnknownOpening
        matched  == fallback /\ eco_name # UnknownOpening
        full_name     == IF matched THEN eco_name ELSE found[1]
        moves         == IF matched THEN MovesOfName(eco_name, eco) ELSE found[2]
        has_colon     == Find(full_name, ":") # 0
        base_opening  == IF has_colon
                         THEN Strip(SubSeq(full_name, 1, Find(full_name, ":") - 1))
                         ELSE full_name
        variation_name == IF has_colon
                          THEN Strip(SubSeq(full_name, Find(full_name, ":") + 1, Len(full_name)))
                          ELSE variation
    IN [base_opening |-> base_opening, variation_name |-> variation_name,
        opening_moves |-> moves]

\* '|'.join(move_list[:10]) raises TypeError when the items of the sample move
\* list are no strings; the line is reached when the name lookup found no moves
ResolutionRaises(found, move_list, items_are_str) ==
    /\ found[2] = <<>>
    /\ move_list # <<>>
    /\ ~items_are_str

\* ---- opening_stats.py: the statistics of one group ----
\* round(x, 2) of x = num/den, in hundredths: the nearest integer to
\* 100*num/den, an exact tie going to the even neighbour
Round2_Truncate(num, den) == (100 * num) \div den
Round2(num, den) ==
    LET q == (100 * num) \div den
        r == (100 * num) % den
    IN IF 2 * r < den THEN q
       ELSE IF 2 * r > den THEN q + 1
       ELSE IF q % 2 = 0 THEN q ELSE q + 1

\* len(games)
TotalGames_Decided(g) == g.results["white"] + g.results["black"] + g.results["draw"]
TotalGames(g) ==
    g.results["white"] + g.results["black"] + g.results["draw"] + g.results["other"]

\* round(100 * len(games[games["result"] == r]) / total_games, 2), in hundredths
Percentage(g, r) == Round2(100 * g.results[r], TotalGames(g))

\* int(x) of x = num/den: truncation toward zero
IntTrunc(num, den) ==
    IF num >= 0 THEN num \div den ELSE -((-num) \div den)

\* int((win_pct_white - win_pct_black) * 2), the percentages in hundredths
WinDiffEval(pct_white, pct_black) == IntTrunc(2 * (pct_white - pct_black), 100)

\* invalid_group: too few games, or an opening label that is no proper name
IsPlaceholder(label) == label \in Placeholders
BelowThreshold_Off(g) == TotalGames(g) < MIN_GAMES_FOR_STATISTICS - 1
BelowThreshold(g) == TotalGames(g) < MIN_GAMES_FOR_STATISTICS
invalid_group(g) == BelowThreshold(g) \/ IsPlaceholder(g.opening)

\* players is empty, or the strongest player's name holds a digit
PlayersRejected(players) ==
    IF players = <<>> THEN TRUE
    ELSE has_digit(get_strongest_player(players))

NoneValue == [kind |-> "None", val |-> 0]
IntValue(v) == [kind |-> "int", val |-> v]
FenValue == [kind |-> "fen", val |-> 0]

\* fen / opening_eval / top_moves of lines 115-131; fen_ok and engine_eval are
\* what move_sequence_to_fen and get_stockfish_eval answer
ResolvedFen(info, fen_ok) ==
    IF info.opening_moves # <<>> /\ fen_ok THEN FenValue ELSE NoneValue

OpeningEval(info, fen_ok, engine_eval, pct_white, pct_black) ==
    IF info.opening_moves # <<>>
    THEN IF fen_ok
         THEN IF engine_eval.kind = "None"
              THEN IntValue(WinDiffEval(pct_white, pct_black))
              ELSE engine_eval
         ELSE NoneValue
    ELSE IntValue(WinDiffEval(pct_white, pct_black))

\* where the emitted openingEval comes from: the engine's answer, the score
\* synthesized from the win percentages, or the 0 that stands in for None
EvalSource(info, fen_ok, engine_eval) ==
    IF info.opening_moves # <<>>
    THEN IF fen_ok
         THEN IF engine_eval.kind = "None" THEN "synthesized" ELSE "engine"
         ELSE "default"
    ELSE "synthesized"

\* top_games and player_elo_list: the list computed in the try block, or the
\* [] of its except clause
SubResult(raised) == IF raised THEN "[]" ELSE "computed"

\* the variation_stats dictionary; `group` records the position of the group
\* the record was computed from, evalSource and engineAnswered what lines
\* 115-127 went through
VariationStats(k, g, players, info, fen_ok, engine_eval, top_raises, elos_raise) ==
    LET pw == Percentage(g, "white")
        pb == Percentage(g, "black")
        ev == OpeningEval(info, fen_ok, engine_eval, pw, pb)
    IN [variation          |-> info.variation_name,
        openingMoves       |-> info.opening_moves,
        fen                |-> ResolvedFen(info, fen_ok),
        openingEval        |-> IF ev.kind = "None" THEN IntValue(0) ELSE ev,
        totalGames         |-> TotalGames(g),
        winPercentageWhite |-> pw,
        winPercentageBlack |-> pb,
        drawPercentage     |-> Percentage(g, "draw"),
        strongestPlayer    |-> get_strongest_player(players),
        playerElos         |-> SubResult(elos_raise),
        topGames           |-> SubResult(top_raises),
        evalSource         |-> EvalSource(info, fen_ok, engine_eval),
        group              |-> k]

\* openings_dict[base_opening].append(variation_stats), keys in insertion order
DictPos(dict, key) ==
    IF \E i \in 1..Len(dict) : dict[i].opening = key
    THEN CHOOSE i \in 1..Len(dict) : dict[i].opening = key
    ELSE 0

DictAppend(dict, key, stats) ==
    IF DictPos(dict, key) = 0
    THEN Append(dict, [opening |-> key, variations |-> <<stats>>])
    ELSE [dict EXCEPT ![DictPos(dict, key)].variations = Append(@, stats)]

\* if opening not in ['?', 'Unknown Opening', '']
KeptInOutput_All(entry) == TRUE
KeptInOutput(entry) == ~IsPlaceholder(entry.opening)

\* ---- the groups and the opening database the aggregator runs on ----
ResultValues == {"white", "black", "draw", "other"}

GroupSizes == (MIN_GAMES_FOR_STATISTICS - 1)..MaxGroupGames

ResultCounts ==
    {c \in [ResultValues -> 0..MaxGroupGames] :
        /\ c["other"] <= MaxOther
        /\ c["white"] + c["black"] + c["draw"] + c["other"] \in GroupSizes}

OpeningLabels == {SicilianDefense, QuestionMark, UnknownOpening, <<>>, QuestionColonX}
VariationLabels == {Najdorf, QuestionMark, <<>>}

PlayersChoices ==
    {<<>>,
     <<<<Carlsen, 2800>>, <<Bot1, 1500>>>>,
     <<<<Carlsen, 2800>>, <<Bot1, 2900>>>>}

SampleMoves == {<<>>, <<TokE4, TokC5, TokC3>>}

\* a group: its key and the number of its rows per result value; the players
\* and the moves of its rows are drawn where the loop body reads them
Groups ==
    [opening : OpeningLabels, variation : VariationLabels, results : ResultCounts]

\* the last database holds a line chess.Board cannot play: c5 is no legal
\* first move of White
AggIndexes ==
    {<<>>,
     <<<<SicilianNajdorfVariation, <<TokE4, TokC5>>>>,
       <<SicilianAlapin, <<TokE4, TokC5, TokC3>>>>>>,
     <<<<SicilianNajdorfVariation, <<TokC5, TokE4>>>>>>}

\* ---- stockfish_engine.py: move_sequence_to_fen ----
\* the lines chess.Board can play from the start position, with the position
\* each ends in
PlayableLines == {<<TokE4, TokC5>>, <<TokE4, TokC5, TokC3>>}

\* move_sequence_to_fen("|".join(moves)): the fen after the moves, None (here
\* "") for no moves or when push_san raises; the tokens hold no '|' and no
\* blank, so split and strip give the list back
move_sequence_to_fen(moves) ==
    IF moves \notin PlayableLines THEN ""
    ELSE IF moves = <<TokE4, TokC5>> THEN "A"
    ELSE "B"

\* find_eco_name_and_moves over the same labels and databases, computed once
NameLookup ==
    [o \in OpeningLabels, v \in VariationLabels, e \in AggIndexes |->
        find_eco_name_and_moves(o, v, e)]

\* inputs of two groups, in groupby (key) order
PairResults == [white |-> 5, black |-> 4, draw |-> 3, other |-> 0]

GroupPairs ==
    {<<[opening |-> k1[1], variation |-> k1[2], results |-> PairResults],
       [opening |-> k2[1], variation |-> k2[2], results |-> PairResults]>> :
        k1 \in {<<QuestionColonX, Najdorf>>, <<SicilianDefense, <<>>>>},
        k2 \in {<<SicilianDefense, Najdorf>>, <<UnknownOpening, Najdorf>>}}

\* '|'.join(move_list[:10]) and what get_opening_uncached answers for it on
\* the module's database, computed once
SampleSequence == [sm \in SampleMoves |-> Join(Take(sm, 10), <<"|">>)]

SampleOpening ==
    [sm \in SampleMoves, e \in AggIndexes |-> get_opening_uncached(SampleSequence[sm], e)]

\* get_proper_opening_info over the labels, sample moves and databases above,
\* computed once
OpeningInfo ==
    [o \in OpeningLabels, v \in VariationLabels, sm \in SampleMoves, e \in AggIndexes |->
        get_proper_opening_info(o, v, sm, e)]

-----------------------------------------------------------------------------
(* popular_moves_analyzer.py: the continuation detector *)

\* ---- regular expressions over character sequences ----
\* a pattern is a sequence of elements, each a character class that is
\* required or optional
One(S) == [set |-> S, opt |-> FALSE]
Opt(S) == [set |-> S, opt |-> TRUE]

\* re.match(r'^...$', s) for a pattern of such elements, from position i of s
\* and element j of the pattern
RECURSIVE MatchFrom(_, _, _, _)
MatchFrom(s, i, pat, j) ==
    IF j > Len(pat) THEN i = Len(s) + 1
    ELSE \/ (i <= Len(s) /\ s[i] \in pat[j].set /\ MatchFrom(s, i + 1, pat, j + 1))
         \/ (pat[j].opt /\ MatchFrom(s, i, pat, j + 1))

FullMatch(s, pat) == MatchFrom(s, 1, pat, 1)

Files == {"a", "b", "c", "d", "e", "f", "g", "h"}
Ranks == {"1", "2", "3", "4", "5", "6", "7", "8"}
Pieces == {"K", "Q", "R", "B", "N"}
PromotionPieces == {"Q", "R", "B", "N"}
LastRanks == {"1", "8"}
EnPassantRanks == {"3", "6"}
\* the characters of rstrip('!?+#=')
Annotations == {"!", "?", "+", "#", "="}
\* [a-zA-Z0-9O-]
LeadingChars ==
    {UpperCase[i] : i \in 1..26} \cup {LowerCase[i] : i \in 1..26} \cup Digits \cup {"-"}

\* str.rstrip(chars)
RECURSIVE RStripChars(_, _)
RStripChars(s, chars) ==
    IF s # <<>> /\ s[Len(s)] \in chars
    THEN RStripChars(SubSeq(s, 1, Len(s) - 1), chars)
    ELSE s

\* r'^\d+\.+.*'
MatchesMoveNumber(s) ==
    \E k \in 1..(Len(s) - 1) : (\A i \in 1..k : s[i] \in Digits) /\ s[k + 1] = "."
\* r'^\.+$'
MatchesDots(s) == s # <<>> /\ \A i \in 1..Len(s) : s[i] = "."
\* r'^\d+$'
MatchesNumber(s) == s # <<>> /\ \A i \in 1..Len(s) : s[i] \in Digits
\* r'^\s+$'
MatchesSpaces(s) == s # <<>> /\ \A i \in 1..Len(s) : s[i] \in Whitespace
\* r'^[^a-zA-Z0-9O-]'
MatchesBadStart(s) == s # <<>> /\ s[1] \notin LeadingChars

\* any of invalid_patterns matches
MatchesInvalidPattern(s) ==
    \/ MatchesMoveNumber(s)
    \/ MatchesDots(s)
    \/ MatchesNumber(s)
    \/ s = <<>>
    \/ MatchesSpaces(s)
    \/ MatchesBadStart(s)

\* r'^O-O(-O)?$' and r'^0-0(-0)?$'
CastlingPattern(o) == <<One({o}), One({"-"}), One({o})>>
MatchesCastling(s) ==
    \E o \in {"O", "0"} :
        \/ FullMatch(s, CastlingPattern(o))
        \/ FullMatch(s, CastlingPattern(o) \o <<One({"-"}), One({o})>>)
\* r'^[KQRBN][a-h]?[1-8]?x?[a-h][1-8]$'
PiecePattern == <<One(Pieces), Opt(Files), Opt(Ranks), Opt({"x"}), One(Files), One(Ranks)>>
\* r'^[a-h][1-8]$'
PawnPattern == <<One(Files), One(Ranks)>>
\* r'^[a-h]x[a-h][1-8]$'
PawnCapturePattern == <<One(Files), One({"x"}), One(Files), One(Ranks)>>
\* r'^[a-h][18]=[QRBN]$'
PromotionPattern == <<One(Files), One(LastRanks), One({"="}), One(PromotionPieces)>>
\* r'^[a-h]x[a-h][18]=[QRBN]$'
CapturePromotionPattern ==
    <<One(Files), One({"x"}), One(Files), One(LastRanks), One({"="}), One(PromotionPieces)>>
\* r'^[a-h]x[a-h][36](\s+e\.p\.)?$'
EnPassantPattern == <<One(Files), One({"x"}), One(Files), One(EnPassantRanks)>>
EnPassantSuffix == <<"e", ".", "p", ".">>
MatchesEnPassant(s) ==
    \/ FullMatch(s, EnPassantPattern)
    \/ /\ Len(s) >= 9
       /\ FullMatch(SubSeq(s, 1, 4), EnPassantPattern)
       /\ \A i \in 5..(Len(s) - 4) : s[i] \in Whitespace
       /\ SubSeq(s, Len(s) - 3, Len(s)) = EnPassantSuffix

\* any of valid_patterns matches
MatchesValidPattern(s) ==
    \/ MatchesCastling(s)
    \/ FullMatch(s, PiecePattern)
    \/ FullMatch(s, PawnPattern)
    \/ FullMatch(s, PawnCapturePattern)
    \/ FullMatch(s, PromotionPattern)
    \/ FullMatch(s, CapturePromotionPattern)
    \/ MatchesEnPassant(s)

\* is_valid_chess_move(move)
is_valid_chess_move(move) ==
    LET clean_move == RStripChars(Strip(move), Annotations)
    IN IF move = <<>> THEN FALSE
       ELSE IF clean_move = <<>> THEN FALSE
       ELSE IF MatchesInvalidPattern(clean_move) THEN FALSE
       ELSE MatchesValidPattern(clean_move)

\* ---- tokens of the games ----
TokNf3 == <<"N", "f", "3">>
TokCastle == <<"O", "-", "O">>
TokExd5 == <<"e", "x", "d", "5">>
TokQxe5Mate == <<"Q", "x", "e", "5", "#">>
TokPromote == <<"e", "8", "=", "Q">>
TokEnPassant == <<"e", "x", "d", "6", " ", "e", ".", "p", ".">>
TokMoveNumber == <<"7", ".">>
TokDots == <<".", ".", ".">>
TokNumber == <<"1", "2">>
TokBadPiece == <<"Z", "f", "3">>
TokBadRank == <<"e", "9">>
TokGameResult == <<"1", "-", "0">>
TokAnnotation == <<"!", "?">>
TokBrace == <<"{", "c", "}">>

GoodTokens == <<TokE4, TokC5, TokNf3, TokExd5, TokCastle, TokQxe5Mate, TokPromote, TokEnPassant>>
BadTokens == <<TokMoveNumber, TokDots, TokNumber, TokBadPiece, TokBadRank, TokGameResult,
               TokAnnotation, TokBrace, <<>>>>
TokenPool == {GoodTokens[i] : i \in 1..Len(GoodTokens)} \cup {BadTokens[i] : i \in 1..Len(BadTokens)}

\* is_valid_chess_move on the tokens of the games, computed once
ValidToken == [t \in TokenPool |-> is_valid_chess_move(t)]

\* a game of n tokens; the token at (0-based) index i is taken from BadTokens
\* when i is in bad and from GoodTokens otherwise
Game(n, bad) ==
    [k \in 1..n |-> IF (k - 1) \in bad THEN BadTokens[((k - 1) % Len(BadTokens)) + 1]
                    ELSE GoodTokens[((k - 1) % Len(GoodTokens)) + 1]]

GamePool ==
    {Game(6, {}), Game(6, {5}), Game(5, {}), Game(8, {6, 7}), Game(8, {4, 5, 6, 7}),
     Game(15, {12, 13}), Game(40, {6}), Game(3, {2}), Game(7, {4, 5})}

MoveLists == UNION {[1..k -> GamePool] : k \in 0..MaxGames}

\* the opening_moves arguments: openings of 0, 2, 4, 5, 7, 12 and 14 moves
OpeningLengths == {0, 2, 4, 5, 7, 12, 14}
OpeningMoves == {Take(Game(14, {}), n) : n \in OpeningLengths}

\* min_games: int = 3
DEFAULT_MIN_GAMES == 3
MinGamesChoices == 1..DEFAULT_MIN_GAMES

\* ---- flexible_get_next_moves ----
RECURSIVE SumLengths(_, _)
SumLengths(ml, i) == IF i > Len(ml) THEN 0 ELSE Len(ml[i]) + SumLengths(ml, i + 1)

MinInt(a, b) == IF a < b THEN a ELSE b
MaxInt(a, b) == IF a > b THEN a ELSE b

\* min(8, max(6, int(avg_game_length * 0.2))), avg_game_length = sum / len
DefaultLength(ml) == MinInt(8, MaxInt(6, SumLengths(ml, 1) \div (5 * Len(ml))))

\* the starting opening_length
StartLength(ml, om) == IF om = <<>> THEN DefaultLength(ml) ELSE Len(om)

\* the body of each attempt: the valid candidate moves at index length of the
\* games longer than length, in the order of the games
CollectNextMoves(ml, length) ==
    LET Candidate(moves) == Len(moves) > length /\ ValidToken[moves[length + 1]]
        games == SelectSeq(ml, Candidate)
    IN [i \in 1..Len(games) |-> games[i][length + 1]]

\* len(next_moves) < min_games
NotEnough_OrEqual(n, min) == n <= min
NotEnough(n, min) == n < min

\* range(opening_length - 1, 3, -1) has reached its end
InShorterRange_Above4(length) == length > 4
InShorterRange(length) == length > 3

\* the stop of range(opening_length + 1, min(opening_length + 4, 15))
LongerStop_Uncapped(length) == length + 4
LongerStop(length) == MinInt(length + 4, 15)

\* one attempt at length, on the locals st
Attempt(ml, length, st) ==
    [next_moves |-> CollectNextMoves(ml, length),
     opening_length |-> st.opening_length,
     tried |-> Append(st.tried, length)]

\* for shorter_length in range(opening_length - 1, 3, -1), from shorter_length on
RECURSIVE ShorterLoop(_, _, _, _)
ShorterLoop(ml, min, shorter_length, st) ==
    IF ~InShorterRange(shorter_length) THEN st
    ELSE LET st1 == Attempt(ml, shorter_length, st)
         IN IF ~NotEnough(Len(st1.next_moves), min)
            THEN [st1 EXCEPT !.opening_length = shorter_length]
            ELSE ShorterLoop(ml, min, shorter_length - 1, st1)

\* for longer_length in range(opening_length + 1, min(opening_length + 4, 15)),
\* from longer_length on
RECURSIVE LongerLoop(_, _, _, _, _)
LongerLoop(ml, min, longer_length, stop, st) ==
    IF longer_length >= stop THEN st
    ELSE LET st1 == Attempt(ml, longer_length, st)
         IN IF ~NotEnough(Len(st1.next_moves), min)
            THEN [st1 EXCEPT !.opening_length = longer_length]
            ELSE LongerLoop(ml, min, longer_length + 1, stop, st1)

\* collections.Counter(next_moves)
Counter(seq) ==
    [t \in {seq[i] : i \in 1..Len(seq)} |-> Cardinality({i \in 1..Len(seq) : seq[i] = t})]

\* the locals of flexible_get_next_moves at its return statement
FlexibleLocals(ml, om, min) ==
    IF ml = <<>> THEN [next_moves |-> <<>>, opening_length |-> 0, tried |-> <<>>]
    ELSE
    LET start == StartLength(ml, om)
        exact == Attempt(ml, start, [next_moves |-> <<>>, opening_length |-> start, tried |-> <<>>])
        shorter == IF NotEnough(Len(exact.next_moves), min) /\ exact.opening_length > 4
                   THEN ShorterLoop(ml, min, exact.opening_length - 1, exact)
                   ELSE exact
        longer == IF NotEnough(Len(shorter.next_moves), min) /\ om # <<>>
                  THEN LongerLoop(ml, min, shorter.opening_length + 1,
                                  LongerStop(shorter.opening_length), shorter)
                  ELSE shorter
    IN longer

\* flexible_get_next_moves(move_lists, opening_moves, min_games)
flexible_get_next_moves(ml, om, min) ==
    LET st == FlexibleLocals(ml, om, min)
    IN <<Counter(st.next_moves), st.opening_length>>

InitContinuation ==
    /\ MatcherIdle
    /\ ParserIdle
    /\ AggIdle
    /\ EngineIdle /\ BatchIdle
    /\ move_lists \in MoveLists
    /\ opening_moves \in OpeningMoves
    /\ min_games \in MinGamesChoices
    /\ opening_length = 0
    /\ next_moves = <<>>
    /\ tried = <<>>
    /\ cd_result = <<>>
    /\ cd_pc = "start"

\* one call flexible_get_next_moves(move_lists, opening_moves, min_games)
FlexibleGetNextMoves ==
    /\ cd_pc = "start"
    /\ LET st == FlexibleLocals(move_lists, opening_moves, min_games)
       IN /\ next_moves' = st.next_moves
          /\ opening_length' = st.opening_length
          /\ tried' = st.tried
    /\ cd_result' = flexible_get_next_moves(move_lists, opening_moves, min_games)
    /\ cd_pc' = "done"
    /\ UNCHANGED <<move_lists, opening_moves, min_games>>
    /\ UNCHANGED <<matcherVars, parserVars, aggVars, engineVars, batchVars>>

NextContinuation == FlexibleGetNextMoves

SpecContinuation == InitContinuation /\ [][NextContinuation]_vars

-----------------------------------------------------------------------------
(* opening_stats_tester.py: its own copy of flexible_get_next_moves *)

\* the body of each attempt of the copy: the token at index length of every
\* game longer than length; the copy calls no is_valid_chess_move
TesterCollectNextMoves(ml, length) ==
    LET Candidate(moves) == Len(moves) > length
        games == SelectSeq(ml, Candidate)
    IN [i \in 1..Len(games) |-> games[i][length + 1]]

TesterAttempt(ml, length, st) ==
    [next_moves |-> TesterCollectNextMoves(ml, length),
     opening_length |-> st.opening_length,
     tried |-> Append(st.tried, length)]

RECURSIVE TesterShorterLoop(_, _, _, _)
TesterShorterLoop(ml, min, shorter_length, st) ==
    IF ~(shorter_length > 3) THEN st
    ELSE LET st1 == TesterAttempt(ml, shorter_length, st)
         IN IF Len(st1.next_moves) >= min
            THEN [st1 EXCEPT !.opening_length = shorter_length]
            ELSE TesterShorterLoop(ml, min, shorter_length - 1, st1)

RECURSIVE TesterLongerLoop(_, _, _, _, _)
TesterLongerLoop(ml, min, longer_length, stop, st) ==
    IF longer_length >= stop THEN st
    ELSE LET st1 == TesterAttempt(ml, longer_length, st)
         IN IF Len(st1.next_moves) >= min
            THEN [st1 EXCEPT !.opening_length = longer_length]
            ELSE TesterLongerLoop(ml, min, longer_length + 1, stop, st1)

\* the locals of the copy at its return statement
TesterLocals(ml, om, min) ==
    IF ml = <<>> THEN [next_moves |-> <<>>, opening_length |-> 0, tried |-> <<>>]
    ELSE
    LET start == StartLength(ml, om)
        exact == TesterAttempt(ml, start,
                               [next_moves |-> <<>>, opening_length |-> start, tried |-> <<>>])
        shorter == IF Len(exact.next_moves) < min /\ exact.opening_length > 4
                   THEN TesterShorterLoop(ml, min, exact.opening_length - 1, exact)
                   ELSE exact
        longer == IF Len(shorter.next_moves) < min /\ om # <<>>
                  THEN TesterLongerLoop(ml, min, shorter.opening_length + 1,
                                        MinInt(shorter.opening_length + 4, 15), shorter)
                  ELSE shorter
    IN longer

InitTester ==
    /\ MatcherIdle
    /\ ParserIdle
    /\ AggIdle
    /\ EngineIdle /\ BatchIdle
    /\ move_lists \in MoveLists
    /\ opening_moves \in OpeningMoves
    /\ min_games \in MinGamesChoices
    /\ opening_length = 0
    /\ next_moves = <<>>
    /\ tried = <<>>
    /\ cd_result = <<>>
    /\ cd_pc = "tester_start"

\* one call of opening_stats_tester.flexible_get_next_moves
TesterFlexibleGetNextMoves ==
    /\ cd_pc = "tester_start"
    /\ LET st == TesterLocals(move_lists, opening_moves, min_games)
       IN /\ next_moves' = st.next_moves
          /\ opening_length' = st.opening_length
          /\ tried' = st.tried
          /\ cd_result' = <<Counter(st.next_moves), st.opening_length>>
    /\ cd_pc' = "tester_done"
    /\ UNCHANGED <<move_lists, opening_moves, min_games>>
    /\ UNCHANGED <<matcherVars, parserVars, aggVars, engineVars, batchVars>>

NextTester == TesterFlexibleGetNextMoves

SpecTester == InitTester /\ [][NextTester]_vars

-----------------------------------------------------------------------------
(* Claims on the continuation detector *)

\* the number of games longer than length whose token at index length is a
\* valid move
ValidCountAt(length) ==
    Cardinality({g \in 1..Len(move_lists) :
                    /\ Len(move_lists[g]) > length
                    /\ ValidToken[move_lists[g][length + 1]]})

\* the expected opening length of the call
ExpectedLength == StartLength(move_lists, opening_moves)

MaxOf(S) == CHOOSE x \in S : \A y \in S : y <= x

\* C9: first attempt: when at least min_games valid tokens are found at index
\* expectedLength, the returned length is expectedLength and no other length
\* is tried.
C9_FirstAttempt ==
    (/\ cd_pc = "done"
     /\ move_lists # <<>>
     /\ ValidCountAt(ExpectedLength) >= min_games) =>
        /\ cd_result[2] = ExpectedLength
        /\ tried = <<ExpectedLength>>

C9_Witness ==
    /\ cd_pc = "done"
    /\ Len(opening_moves) = 5
    /\ min_games = DEFAULT_MIN_GAMES
    /\ ValidCountAt(5) = min_games
    /\ ValidCountAt(4) >= min_games
    /\ cd_result[2] = 5
    /\ tried = <<5>>

\* C10: decreasing fallback: when the attempt at expectedLength finds fewer
\* than min_games valid tokens and expectedLength > 4, the lengths
\* expectedLength-1 down to 4 are tried in decreasing order, and the first and
\* so greatest of them that reaches min_games is the returned length.
C10_DecreasingFallback ==
    (/\ cd_pc = "done"
     /\ move_lists # <<>>
     /\ ExpectedLength > 4
     /\ ValidCountAt(ExpectedLength) < min_games) =>
        LET meeting == {l \in 4..(ExpectedLength - 1) : ValidCountAt(l) >= min_games}
            lowest == IF meeting = {} THEN 4 ELSE MaxOf(meeting)
            attempts == ExpectedLength - lowest + 1
        IN /\ Len(tried) >= attempts
           /\ \A i \in 1..attempts : tried[i] = ExpectedLength - i + 1
           /\ meeting # {} => (cd_result[2] = lowest /\ Len(tried) = attempts)

C10_Witness ==
    /\ cd_pc = "done"
    /\ Len(opening_moves) = 5
    /\ min_games = DEFAULT_MIN_GAMES
    /\ ValidCountAt(5) = 0
    /\ ValidCountAt(4) >= 3
    /\ cd_result[2] = 4
    /\ tried = <<5, 4>>

\* the lengths above the expected length at which next moves were collected
IncreasingTried ==
    LET Above(l) == l > ExpectedLength
    IN SelectSeq(tried, Above)

\* the first attempt and every decreasing attempt found fewer than min_games
\* valid tokens
EarlierAttemptsInsufficient ==
    /\ ValidCountAt(ExpectedLength) < min_games
    /\ ExpectedLength > 4 =>
          \A l \in 4..(ExpectedLength - 1) : ValidCountAt(l) < min_games

\* C15: increasing fallback: exactly when the first attempt and all decreasing
\* attempts are insufficient and opening_moves was supplied, the lengths
\* expectedLength+1 up to min(expectedLength+3, 14) are tried in increasing
\* order, stopping at the first that reaches min_games, which is then the
\* returned length; otherwise no increasing length is tried.
C15_IncreasingFallback ==
    (cd_pc = "done" /\ move_lists # <<>>) =>
        LET e == ExpectedLength
            top == MinInt(e + 3, 14)
            due == EarlierAttemptsInsufficient /\ opening_moves # <<>>
            meeting == {l \in (e + 1)..top : ValidCountAt(l) >= min_games}
            last == IF meeting = {} THEN top ELSE MinOf(meeting)
        IN /\ ~due => IncreasingTried = <<>>
           /\ due => IncreasingTried = [i \in 1..(last - e) |-> e + i]
           /\ (due /\ meeting # {}) => cd_result[2] = MinOf(meeting)

C15_Witness ==
    /\ cd_pc = "done"
    /\ Len(opening_moves) = 4
    /\ EarlierAttemptsInsufficient
    /\ ValidCountAt(5) < min_games
    /\ ValidCountAt(6) >= min_games
    /\ tried = <<4, 5, 6>>
    /\ cd_result[2] = 6

\* the frequency table of the valid tokens at index length
TableAt(length) == Counter(CollectNextMoves(move_lists, length))

\* no attempted length found min_games valid tokens
SearchExhausted == \A i \in 1..Len(tried) : ValidCountAt(tried[i]) < min_games

\* C16: exhausted search: the returned table is the table of the valid tokens
\* at the returned length, and when no attempted length meets min_games the
\* returned length is the length of the last attempt.
C16_ExhaustedSearch ==
    (cd_pc = "done" /\ move_lists # <<>>) =>
        /\ cd_result[1] = TableAt(cd_result[2])
        /\ SearchExhausted => cd_result[2] = tried[Len(tried)]

\* C17: every token counted in the returned frequency table passed
\* is_valid_chess_move, in popular_moves_analyzer.py and in the copy of
\* opening_stats_tester.py.
C17_OnlyValidTokensCounted ==
    cd_pc \in {"done", "tester_done"} =>
        \A t \in DOMAIN cd_result[1] : is_valid_chess_move(t)

-----------------------------------------------------------------------------
(* stockfish_engine.py: the engine pool and the evaluation calls *)

Threads == 1..MaxThreads

\* positions: "" is the empty (falsy) fen
Fens == {"", "A"}

\* values an evaluation call returns
MateValue == [kind |-> "mate", val |-> 3]
EmptyList == [kind |-> "list", val |-> 0]
MovesList == [kind |-> "list", val |-> 1]
NotCalled == [kind |-> "not called", val |-> 0]

\* what a call returns when it has no data: None for get_stockfish_eval,
\* [] for get_top_stockfish_moves
NoData(kind) == IF kind = "eval" THEN NoneValue ELSE EmptyList

\* a thread that is in no call; got and returned count the get_engine and
\* return_engine calls of the current call, failed tells that its try block
\* raised, raised that the exception reached the caller
IdleCaller ==
    [pc |-> "idle", kind |-> "none", fen |-> "", engine |-> 0, result |-> NotCalled,
     failed |-> FALSE, raised |-> FALSE, got |-> 0, returned |-> 0]

\* not STOCKFISH_AVAILABLE or engine_pool is None
Disabled_Never(available, pool) == FALSE
Disabled(available, pool) == ~available \/ pool = "None"

\* self.engines.pop(): the handle popped and the list left
PopRest_Keep(free) == free
PopRest(free) == SubSeq(free, 1, Len(free) - 1)

\* get_engine on an empty free list constructs a handle at once
MayConstruct_Wait(free) == free # <<>>
MayConstruct(free) == TRUE

\* if len(self.engines) < self.pool_size
ReturnAllowed_OffByOne(free) == Len(free) < pool_size - 1
ReturnAllowed_Always(free) == TRUE
ReturnAllowed(free) == Len(free) < pool_size

\* except Exception: return None / return []
OnFailure_Propagate(kind) == [result |-> NotCalled, raised |-> TRUE]
OnFailure(kind) == [result |-> NoData(kind), raised |-> FALSE]

\* finally: if engine: engine_pool.return_engine(engine)
NeedsReturn_OnSuccess(engine, failed) == engine # 0 /\ ~failed
NeedsReturn(engine, failed) == engine # 0

\* what the engine does with the handle: for get_stockfish_eval the type of
\* get_evaluation() or an exception of set_fen_position / get_evaluation; for
\* get_top_stockfish_moves a list of moves, no move, or an exception
Outcomes(kind) ==
    IF kind = "eval" THEN {"cp", "mate", "other", "raise"} ELSE {"moves", "empty", "raise"}

\* the value returned for an outcome that is no exception
OutcomeValue(outcome) ==
    CASE outcome = "cp" -> IntValue(35)
      [] outcome = "mate" -> MateValue
      [] outcome = "other" -> NoneValue
      [] outcome = "moves" -> MovesList
      [] outcome = "empty" -> EmptyList

\* the lru_cache after a miss on fen has computed value: the value is stored,
\* unless another call stored the key in the meantime, whose value is kept
CachePut(cache, fen, value) ==
    IF fen \in DOMAIN cache THEN cache
    ELSE [f \in (DOMAIN cache) \cup {fen} |-> IF f = fen THEN value ELSE cache[f]]

InitPool ==
    /\ MatcherIdle /\ ParserIdle /\ AggIdle /\ CdIdle /\ BatchIdle
    /\ stockfish_available \in BOOLEAN
    /\ engine_pool = IF stockfish_available THEN "pool" ELSE "None"
    /\ pool_size = IF stockfish_available THEN PoolSize ELSE 0
    /\ \E n \in 0..PoolSize :
          /\ engines = IF stockfish_available THEN [i \in 1..n |-> i] ELSE <<>>
          /\ handles_made = IF stockfish_available THEN n ELSE 0
    /\ pool_lock = 0
    /\ eval_cache = <<>>
    /\ callers = [t \in Threads |-> IdleCaller]
    /\ engine_calls = 0
    /\ pool_users \in Threads
    /\ failed_fens = {}
    /\ cleanup_pc = "idle"

PoolFrame == UNCHANGED <<matcherVars, parserVars, aggVars, cdVars, batchVars>>

\* ---- the caller of an evaluation call ----
\* inside batch_get_stockfish_evals the caller is evaluate_fen, run by a worker
\* thread of the executor on one task; elsewhere it is a thread with no state
\* of its own.  The task worker t has taken and not finished, 0 when none
TaskOf(t) ==
    LET mine == {i \in DOMAIN futures :
                    futures[i].worker = t /\ futures[i].state \notin {"pending", "done"}}
    IN IF mine = {} THEN 0 ELSE CHOOSE i \in mine : TRUE

\* the bound on the calls free-running threads make; a batch makes one call
\* for each task
CallAllowed == batch_pc # "idle" \/ engine_calls < MaxEngineCalls

\* evaluate_fen calls get_stockfish_eval(fen) with the fen of its task
CallerInvokes(t, kind, fen) ==
    /\ UNCHANGED <<matcherVars, parserVars, aggVars, cdVars>>
    /\ IF batch_pc = "idle" THEN UNCHANGED batchVars
       ELSE /\ TaskOf(t) # 0
            /\ futures[TaskOf(t)].state = "running"
            /\ kind = "eval"
            /\ fen = fen_list[TaskOf(t)]
            /\ futures' = [futures EXCEPT ![TaskOf(t)].state = "calling"]
            /\ UNCHANGED <<fen_list, results, completed, batch_return, batch_pc>>

\* the value get_stockfish_eval returns, or the exception that leaves it,
\* reaches evaluate_fen
CallerReceives(t) ==
    /\ UNCHANGED <<matcherVars, parserVars, aggVars, cdVars>>
    /\ IF batch_pc = "idle" THEN UNCHANGED batchVars
       ELSE /\ futures' = [futures EXCEPT ![TaskOf(t)].state = "returned",
                                          ![TaskOf(t)].value = callers[t].result,
                                          ![TaskOf(t)].raised = callers[t].raised]
            /\ UNCHANGED <<fen_list, results, completed, batch_return, batch_pc>>

\* get_stockfish_eval(fen) answered by the lru_cache
EvalHit(t, fen) ==
    /\ t <= pool_users
    /\ callers[t].pc = "idle"
    /\ CallAllowed
    /\ fen \in DOMAIN eval_cache
    /\ callers' = [callers EXCEPT ![t] =
                     [IdleCaller EXCEPT !.pc = "cached", !.kind = "eval", !.fen = fen,
                                        !.result = eval_cache[fen]]]
    /\ engine_calls' = engine_calls + 1
    /\ UNCHANGED <<stockfish_available, pool_size, pool_users, cleanup_pc, failed_fens, engine_pool, engines,
                   pool_lock, handles_made, eval_cache>>
    /\ CallerInvokes(t, "eval", fen)

\* a call that returns at its first checks: `if not fen` or the engine disabled
CallNoData(t, kind, fen) ==
    /\ t <= pool_users
    /\ callers[t].pc = "idle"
    /\ CallAllowed
    /\ kind = "eval" => fen \notin DOMAIN eval_cache
    /\ fen = "" \/ Disabled(stockfish_available, engine_pool)
    /\ callers' = [callers EXCEPT ![t] =
                     [IdleCaller EXCEPT !.pc = "finish", !.kind = kind, !.fen = fen,
                                        !.result = NoData(kind)]]
    /\ eval_cache' = eval_cache
    /\ engine_calls' = engine_calls + 1
    /\ UNCHANGED <<stockfish_available, pool_size, pool_users, cleanup_pc, failed_fens, engine_pool,
                   engines, pool_lock, handles_made>>
    /\ CallerInvokes(t, kind, fen)

\* a call that enters its try block: engine = None, then engine_pool.get_engine()
CallStart(t, kind, fen) ==
    /\ t <= pool_users
    /\ callers[t].pc = "idle"
    /\ CallAllowed
    /\ kind = "eval" => fen \notin DOMAIN eval_cache
    /\ ~(fen = "" \/ Disabled(stockfish_available, engine_pool))
    /\ callers' = [callers EXCEPT ![t] =
                     [IdleCaller EXCEPT !.pc = "get_read", !.kind = kind, !.fen = fen]]
    /\ engine_calls' = engine_calls + 1
    /\ UNCHANGED <<stockfish_available, pool_size, pool_users, cleanup_pc, failed_fens, engine_pool, engines,
                   pool_lock, handles_made, eval_cache>>
    /\ CallerInvokes(t, kind, fen)

\* engine_pool.get_engine: the module global is read and is a pool
ReadPoolGet(t) ==
    /\ callers[t].pc = "get_read"
    /\ engine_pool # "None"
    /\ callers' = [callers EXCEPT ![t].pc = "get_lock"]
    /\ UNCHANGED <<stockfish_available, pool_size, pool_users, cleanup_pc, failed_fens, engine_pool,
                   engines, pool_lock, handles_made, eval_cache, engine_calls>>
    /\ PoolFrame

\* get_engine: with self.lock, on the pool object that was read
AcquireGet(t) ==
    /\ callers[t].pc = "get_lock"
    /\ pool_lock = 0
    /\ pool_lock' = t
    /\ callers' = [callers EXCEPT ![t].pc = "in_get"]
    /\ UNCHANGED <<stockfish_available, pool_size, pool_users, cleanup_pc, failed_fens, engine_pool,
                   engines, handles_made, eval_cache, engine_calls>>
    /\ PoolFrame

\* get_engine: return self.engines.pop()
GetEnginePop(t) ==
    /\ callers[t].pc = "in_get"
    /\ engines # <<>>
    /\ callers' = [callers EXCEPT ![t].pc = "use", ![t].engine = engines[Len(engines)],
                                  ![t].got = 1]
    /\ engines' = PopRest(engines)
    /\ pool_lock' = 0
    /\ UNCHANGED <<stockfish_available, pool_size, pool_users, cleanup_pc, failed_fens, engine_pool,
                   handles_made, eval_cache, engine_calls>>
    /\ PoolFrame

\* get_engine: return Stockfish(path=..., depth=...); the constructor may raise,
\* which the caller's except clause turns into its no-data value
GetEngineNew(t) ==
    /\ callers[t].pc = "in_get"
    /\ engines = <<>>
    /\ MayConstruct(engines)
    /\ \E constructed \in BOOLEAN :
          IF constructed
          THEN /\ callers' = [callers EXCEPT ![t].pc = "use", ![t].engine = handles_made + 1,
                                             ![t].got = 1]
               /\ handles_made' = handles_made + 1
          ELSE /\ callers' = [callers EXCEPT ![t].pc = "finish", ![t].failed = TRUE,
                                             ![t].result = OnFailure(callers[t].kind).result,
                                             ![t].raised = OnFailure(callers[t].kind).raised]
               /\ handles_made' = handles_made
    /\ pool_lock' = 0
    /\ UNCHANGED <<stockfish_available, pool_size, pool_users, cleanup_pc, failed_fens, engine_pool,
                   engines, eval_cache, engine_calls>>
    /\ PoolFrame

\* the body of the try block on the handle, up to the finally clause
UseEngine(t) ==
    /\ callers[t].pc = "use"
    /\ \E outcome \in Outcomes(callers[t].kind) :
          LET failed == outcome = "raise"
              kind   == callers[t].kind
          IN callers' = [callers EXCEPT
                 ![t].failed = failed,
                 ![t].result = IF failed THEN OnFailure(kind).result ELSE OutcomeValue(outcome),
                 ![t].raised = IF failed THEN OnFailure(kind).raised ELSE FALSE,
                 ![t].pc = IF NeedsReturn(callers[t].engine, failed) THEN "ret_read" ELSE "finish"]
    /\ UNCHANGED <<stockfish_available, pool_size, pool_users, cleanup_pc, failed_fens, engine_pool,
                   engines, pool_lock, handles_made, eval_cache, engine_calls>>
    /\ PoolFrame

\* engine_pool.return_engine: the module global is read and is a pool
ReadPoolReturn(t) ==
    /\ callers[t].pc = "ret_read"
    /\ engine_pool # "None"
    /\ callers' = [callers EXCEPT ![t].pc = "ret_lock"]
    /\ UNCHANGED <<stockfish_available, pool_size, pool_users, cleanup_pc, failed_fens, engine_pool,
                   engines, pool_lock, handles_made, eval_cache, engine_calls>>
    /\ PoolFrame

\* return_engine: with self.lock, on the pool object that was read
AcquireReturn(t) ==
    /\ callers[t].pc = "ret_lock"
    /\ pool_lock = 0
    /\ pool_lock' = t
    /\ callers' = [callers EXCEPT ![t].pc = "in_ret"]
    /\ UNCHANGED <<stockfish_available, pool_size, pool_users, cleanup_pc, failed_fens, engine_pool,
                   engines, handles_made, eval_cache, engine_calls>>
    /\ PoolFrame

\* return_engine: if len(self.engines) < self.pool_size: self.engines.append(engine)
ReturnEngine(t) ==
    /\ callers[t].pc = "in_ret"
    /\ engines' = IF ReturnAllowed(engines) THEN Append(engines, callers[t].engine) ELSE engines
    /\ pool_lock' = 0
    /\ callers' = [callers EXCEPT ![t].pc = "finish", ![t].returned = callers[t].returned + 1]
    /\ UNCHANGED <<stockfish_available, pool_size, pool_users, cleanup_pc, failed_fens, engine_pool,
                   handles_made, eval_cache, engine_calls>>
    /\ PoolFrame

\* lru_cache stores the value an uncached get_stockfish_eval returned, None
\* included; nothing is stored when the call raised
Cached(call) == call.pc = "finish" /\ call.kind = "eval" /\ ~call.raised

\* the call returns (or raises) to its caller and its locals are gone
FinishCall(t) ==
    /\ callers[t].pc \in {"finish", "cached"}
    /\ callers' = [callers EXCEPT ![t] = IdleCaller]
    /\ eval_cache' = IF Cached(callers[t])
                     THEN CachePut(eval_cache, callers[t].fen, callers[t].result)
                     ELSE eval_cache
    /\ failed_fens' = IF /\ Cached(callers[t]) /\ callers[t].failed
                         /\ callers[t].fen \notin DOMAIN eval_cache
                      THEN failed_fens \cup {callers[t].fen}
                      ELSE failed_fens
    /\ UNCHANGED <<stockfish_available, pool_size, pool_users, cleanup_pc, engine_pool, engines, pool_lock,
                   handles_made, engine_calls>>
    /\ CallerReceives(t)

NextPool ==
    \E t \in Threads :
        \/ \E fen \in Fens : EvalHit(t, fen)
        \/ \E kind \in {"eval", "top"}, fen \in Fens : CallNoData(t, kind, fen)
        \/ \E kind \in {"eval", "top"}, fen \in Fens : CallStart(t, kind, fen)
        \/ ReadPoolGet(t)
        \/ AcquireGet(t)
        \/ GetEnginePop(t)
        \/ GetEngineNew(t)
        \/ UseEngine(t)
        \/ ReadPoolReturn(t)
        \/ AcquireReturn(t)
        \/ ReturnEngine(t)
        \/ FinishCall(t)

SpecPool == InitPool /\ [][NextPool]_vars

\* the module as config.py sets it up: engine_pool = StockfishPool(...,
\* pool_size=MAX_WORKERS), used by at most MAX_WORKERS threads at a time;
\* _initialize_pool has constructed all the handles, or fewer where a
\* constructor raised
InitPoolConfigured ==
    /\ MatcherIdle /\ ParserIdle /\ AggIdle /\ CdIdle /\ BatchIdle
    /\ stockfish_available = TRUE
    /\ engine_pool = "pool"
    /\ pool_size = MaxThreads
    /\ \E n \in 0..MaxThreads :
          /\ engines = [i \in 1..n |-> i]
          /\ handles_made = n
    /\ pool_lock = 0
    /\ eval_cache = <<>>
    /\ callers = [t \in Threads |-> IdleCaller]
    /\ engine_calls = 0
    /\ pool_users \in Threads
    /\ failed_fens = {}
    /\ cleanup_pc = "idle"

SpecPoolConfigured == InitPoolConfigured /\ [][NextPool]_vars

\* fair scheduling of get_engine and of the lock's critical sections: a thread
\* that can take the free lock for get_engine does so, and a thread inside
\* `with self.lock` leaves it; nothing obliges a thread that uses a handle to
\* go on, so handles may stay checked out forever
LeaveLock == \E t \in Threads : GetEnginePop(t) \/ GetEngineNew(t) \/ ReturnEngine(t)

FairPool ==
    /\ WF_vars(LeaveLock)
    /\ \A t \in Threads : WF_vars(AcquireGet(t))

SpecPoolFair == InitPool /\ [][NextPool]_vars /\ FairPool

\* ---- cleanup_stockfish run while evaluation calls are in flight ----
\* the holder of the lock inside engine_pool.cleanup()
CleanupThread == MaxThreads + 1

\* if engine_pool: engine_pool.cleanup() -> with self.lock
CleanupStart ==
    /\ cleanup_pc = "idle"
    /\ engine_pool # "None"
    /\ pool_lock = 0
    /\ pool_lock' = CleanupThread
    /\ cleanup_pc' = "locked"
    /\ UNCHANGED <<stockfish_available, pool_size, pool_users, failed_fens, engine_pool, engines,
                   handles_made, eval_cache, callers, engine_calls>>
    /\ PoolFrame

\* if engine_pool: is false, nothing is done
CleanupSkip ==
    /\ cleanup_pc = "idle"
    /\ engine_pool = "None"
    /\ cleanup_pc' = "done"
    /\ UNCHANGED <<stockfish_available, pool_size, pool_users, failed_fens, engine_pool, engines, pool_lock,
                   handles_made, eval_cache, callers, engine_calls>>
    /\ PoolFrame

\* cleanup: self.engines.clear(), and the lock is released
CleanupClear ==
    /\ cleanup_pc = "locked"
    /\ engines' = <<>>
    /\ pool_lock' = 0
    /\ cleanup_pc' = "cleared"
    /\ UNCHANGED <<stockfish_available, pool_size, pool_users, failed_fens, engine_pool,
                   handles_made, eval_cache, callers, engine_calls>>
    /\ PoolFrame

\* engine_pool = None
CleanupSetNone ==
    /\ cleanup_pc = "cleared"
    /\ engine_pool' = "None"
    /\ cleanup_pc' = "done"
    /\ UNCHANGED <<stockfish_available, pool_size, pool_users, failed_fens, engines, pool_lock,
                   handles_made, eval_cache, callers, engine_calls>>
    /\ PoolFrame

\* engine_pool.get_engine() with engine_pool None: the AttributeError is
\* raised inside the try block, and engine is still None in the finally clause
GetEngineNoPool(t) ==
    /\ callers[t].pc = "get_read"
    /\ engine_pool = "None"
    /\ callers' = [callers EXCEPT ![t].pc = "finish", ![t].failed = TRUE,
                                  ![t].result = OnFailure(callers[t].kind).result,
                                  ![t].raised = OnFailure(callers[t].kind).raised]
    /\ UNCHANGED <<stockfish_available, pool_size, pool_users, cleanup_pc, failed_fens, engine_pool,
                   engines, pool_lock, handles_made, eval_cache, engine_calls>>
    /\ PoolFrame

\* engine_pool.return_engine(engine) with engine_pool None: the AttributeError
\* is raised in the finally clause, outside the try block, and takes the place
\* of the value being returned
ReturnNoPool(t) ==
    /\ callers[t].pc = "ret_read"
    /\ engine_pool = "None"
    /\ callers' = [callers EXCEPT ![t].pc = "finish", ![t].result = NotCalled,
                                  ![t].raised = TRUE]
    /\ UNCHANGED <<stockfish_available, pool_size, pool_users, cleanup_pc, failed_fens, engine_pool,
                   engines, pool_lock, handles_made, eval_cache, engine_calls>>
    /\ PoolFrame

NextCleanup ==
    \/ NextPool
    \/ CleanupStart
    \/ CleanupSkip
    \/ CleanupClear
    \/ CleanupSetNone
    \/ \E t \in Threads : GetEngineNoPool(t)
    \/ \E t \in Threads : ReturnNoPool(t)

SpecCleanup == InitPool /\ [][NextCleanup]_vars

-----------------------------------------------------------------------------
(* opening_stats.py: the loop of main over the groups, with the calls it    *)
(* makes into eco_utils.py and stockfish_engine.py                          *)

\* ---- an evaluation call run from start to end by the only thread ----
\* get_engine, the try block and return_engine of one call, no other thread
\* in the pool: the free list and the handle count it leaves, whether the try
\* block raised, and the value returned
SeqCall(kind, free, made, constructed, outcome) ==
    LET failed == outcome = "raise"
        value  == IF failed THEN OnFailure(kind).result ELSE OutcomeValue(outcome)
    IN IF free # <<>>
       THEN [engines |-> IF ReturnAllowed(PopRest(free))
                         THEN Append(PopRest(free), free[Len(free)])
                         ELSE PopRest(free),
             made |-> made, failed |-> failed, result |-> value]
       ELSE IF constructed
       THEN [engines |-> IF ReturnAllowed(free) THEN Append(free, made + 1) ELSE free,
             made |-> made + 1, failed |-> failed, result |-> value]
       ELSE [engines |-> free, made |-> made, failed |-> TRUE,
             result |-> OnFailure(kind).result]

\* a call that touches neither the pool nor the engine
NoCall(free, made, value) ==
    [engines |-> free, made |-> made, failed |-> FALSE, result |-> value]

\* get_stockfish_eval(fen) for a fen that is not None: the lru_cache answers,
\* or the uncached function runs and its value is stored
SeqEval(fen, constructed, outcome) ==
    IF fen \in DOMAIN eval_cache THEN NoCall(engines, handles_made, eval_cache[fen])
    ELSE IF Disabled(stockfish_available, engine_pool)
    THEN NoCall(engines, handles_made, NoData("eval"))
    ELSE SeqCall("eval", engines, handles_made, constructed, outcome)

\* get_top_stockfish_moves(fen, num_moves=5) after the evaluation call: the
\* finally clause gives the handle back whatever the engine answered, so the
\* pool is left the same for a list of moves, no move and an exception
SeqTop(after_eval, constructed) ==
    IF Disabled(stockfish_available, engine_pool)
    THEN NoCall(after_eval.engines, after_eval.made, NoData("top"))
    ELSE SeqCall("top", after_eval.engines, after_eval.made, constructed, "moves")

\* the module after import: no binary and no pool, or a pool in which
\* _initialize_pool constructed all handles or, every constructor raising, none
EngineSetups ==
    {[available |-> FALSE, handles |-> 0],
     [available |-> TRUE, handles |-> 0],
     [available |-> TRUE, handles |-> PoolSize]}

\* no line of the database resolves to a fen, so the loop never asks the engine
NoPlayableLine(eco) == \A e \in 1..Len(eco) : eco[e][2] \notin PlayableLines

\* the state when main starts; where the engine is never asked one setup stands
\* for all
InitStats ==
    /\ eco_openings \in AggIndexes
    /\ opening_cache = <<>>
    /\ call_moves = <<>>
    /\ call_index = <<>>
    /\ call_result = <<>>
    /\ call_hit = FALSE
    /\ ncalls = 0
    /\ m_pc = "idle"
    /\ ag_groups \in {<<g>> : g \in Groups} \cup GroupPairs
    /\ ag_idx = 1
    /\ openings_dict = <<>>
    /\ output_list = <<>>
    /\ ag_last = "none"
    /\ ag_pc = "loop"
    /\ \E setup \in EngineSetups :
          /\ NoPlayableLine(eco_openings) => setup = [available |-> TRUE, handles |-> PoolSize]
          /\ stockfish_available = setup.available
          /\ pool_size = IF setup.available THEN PoolSize ELSE 0
          /\ engine_pool = IF setup.available THEN "pool" ELSE "None"
          /\ engines = [i \in 1..setup.handles |-> i]
          /\ handles_made = setup.handles
    /\ pool_lock = 0
    /\ eval_cache = <<>>
    /\ callers = [t \in Threads |-> IdleCaller]
    /\ engine_calls = 0
    /\ pool_users = 1
    /\ failed_fens = {}
    /\ cleanup_pc = "idle"
    /\ ParserIdle /\ CdIdle /\ BatchIdle

AggStep ==
    /\ ag_pc = "loop"
    /\ ag_idx <= Len(ag_groups)
    /\ ag_idx' = ag_idx + 1
    /\ UNCHANGED <<ag_groups, output_list, ag_pc>>
    /\ UNCHANGED <<parserVars, cdVars, batchVars>>

\* if invalid_group: continue
AggSkipInvalid ==
    /\ AggStep
    /\ invalid_group(ag_groups[ag_idx])
    /\ ag_last' = "skipped"
    /\ UNCHANGED openings_dict
    /\ UNCHANGED <<matcherVars, engineVars>>

\* if not players: continue / if has_digit(strongest_player): continue
AggSkipPlayers ==
    \E players \in PlayersChoices :
        /\ AggStep
        /\ ~invalid_group(ag_groups[ag_idx])
        /\ PlayersRejected(players)
        /\ ag_last' = "skipped"
        /\ UNCHANGED openings_dict
        /\ UNCHANGED <<matcherVars, engineVars>>

\* get_proper_opening_info raises at the join, before get_opening is called:
\* nothing catches it, main ends with the exception and neither the rest of
\* the groups nor the output file is reached
AggAbort ==
    \E players \in PlayersChoices, sample_moves \in SampleMoves, items_are_str \in BOOLEAN :
        LET g == ag_groups[ag_idx]
        IN /\ ag_pc = "loop"
           /\ ag_idx <= Len(ag_groups)
           /\ ~invalid_group(g)
           /\ ~PlayersRejected(players)
           /\ ResolutionRaises(NameLookup[g.opening, g.variation, eco_openings],
                               sample_moves, items_are_str)
           /\ ag_pc' = "aborted"
           /\ ag_last' = "raised"
           /\ UNCHANGED <<ag_groups, ag_idx, openings_dict, output_list>>
           /\ UNCHANGED <<matcherVars, parserVars, cdVars, engineVars, batchVars>>

\* get_proper_opening_info calls get_opening('|'.join(move_list[:10]),
\* eco_openings) when the name lookup found no moves and there are sample moves
ResolveCallsGetOpening(found, move_list) == found[2] = <<>> /\ move_list # <<>>

\* the call of get_opening inside get_proper_opening_info, through the lru_cache
ResolveOpening(found, sample_moves) ==
    IF ResolveCallsGetOpening(found, sample_moves)
    THEN LET moves == SampleSequence[sample_moves]
         IN /\ \/ GetOpeningHit(moves, eco_openings)
               \/ StoreMiss(moves, SampleOpening[sample_moves, CachedIndex(eco_openings)])
            /\ call_moves' = moves
            /\ call_index' = eco_openings
            /\ ncalls' = ncalls + 1
            /\ UNCHANGED <<eco_openings, m_pc>>
    ELSE UNCHANGED matcherVars

\* lines 115-131: get_stockfish_eval(fen) and get_top_stockfish_moves(fen) when
\* the fen resolved, each taking a handle from the pool and giving it back
EvaluatePosition(fen, ev, top) ==
    IF fen # ""
    THEN /\ engines' = top.engines
         /\ handles_made' = top.made
         /\ eval_cache' = CachePut(eval_cache, fen, ev.result)
         /\ failed_fens' = IF ev.failed /\ fen \notin DOMAIN eval_cache
                           THEN failed_fens \cup {fen}
                           ELSE failed_fens
         /\ engine_calls' = engine_calls + 2
         /\ UNCHANGED <<stockfish_available, pool_size, engine_pool, pool_lock, callers, pool_users,
                        cleanup_pc>>
    ELSE UNCHANGED engineVars

\* an answer of the engine is an input only of a call that uses it; elsewhere
\* it is held at its first value
Drawn(used, value, first) == used \/ value = first

\* the rest of the loop body: resolve the opening, evaluate, append the record
AggEmit ==
    \E players \in PlayersChoices, sample_moves \in SampleMoves, items_are_str \in BOOLEAN :
        LET g     == ag_groups[ag_idx]
            found == NameLookup[g.opening, g.variation, eco_openings]
            info  == OpeningInfo[g.opening, g.variation, sample_moves, eco_openings]
            fen   == move_sequence_to_fen(info.opening_moves)
            asked == fen # "" /\ ~Disabled(stockfish_available, engine_pool)
        IN /\ AggStep
           /\ ~invalid_group(g)
           /\ ~PlayersRejected(players)
           /\ ~ResolutionRaises(found, sample_moves, items_are_str)
           /\ ResolveOpening(found, sample_moves)
           /\ \E eval_made \in BOOLEAN, eval_outcome \in Outcomes("eval"),
                 top_made \in BOOLEAN :
                 LET ev  == SeqEval(fen, eval_made, eval_outcome)
                     top == SeqTop(ev, top_made)
                     miss == asked /\ fen \notin DOMAIN eval_cache
                 IN /\ Drawn(miss /\ engines = <<>>, eval_made, TRUE)
                    /\ Drawn(miss /\ (engines # <<>> \/ eval_made), eval_outcome, "cp")
                    /\ Drawn(asked /\ ev.engines = <<>>, top_made, TRUE)
                    /\ EvaluatePosition(fen, ev, top)
                    /\ \E top_raises \in BOOLEAN, elos_raise \in BOOLEAN :
                          openings_dict' =
                             DictAppend(openings_dict, info.base_opening,
                                        VariationStats(ag_idx, g, players, info, fen # "",
                                                       ev.result, top_raises, elos_raise))
           /\ ag_last' = "emitted"

\* output_list = [... for opening, variations in openings_dict.items() if ...]
AggWrite ==
    /\ ag_pc = "loop"
    /\ ag_idx > Len(ag_groups)
    /\ output_list' = SelectSeq(openings_dict, KeptInOutput)
    /\ ag_pc' = "written"
    /\ UNCHANGED <<ag_groups, ag_idx, openings_dict, ag_last>>
    /\ UNCHANGED <<matcherVars, parserVars, cdVars, engineVars, batchVars>>

NextStats ==
    \/ AggSkipInvalid
    \/ AggSkipPlayers
    \/ AggAbort
    \/ AggEmit
    \/ AggWrite

SpecStats == InitStats /\ [][NextStats]_vars

-----------------------------------------------------------------------------
(* Claims on the aggregator *)

\* the records of the written output, each with the opening it is filed under
OutputRecords ==
    UNION {{output_list[i].variations[j] : j \in 1..Len(output_list[i].variations)}
           : i \in 1..Len(output_list)}

\* C6: percentage closure: for every emitted record winPercentageWhite +
\* winPercentageBlack + drawPercentage lies in [99.99, 100.01] (here in
\* hundredths of a percent).
C6_PercentageClosure ==
    ag_pc = "written" =>
        \A r \in OutputRecords :
            LET total == r.winPercentageWhite + r.winPercentageBlack + r.drawPercentage
            IN 9999 <= total /\ total <= 10001

\* x (in hundredths) is 100*count/total rounded to 2 decimals: no hundredth is
\* nearer to the exact quotient
IsRoundedPercentage(x, count, total) ==
    LET diff == x * total - 10000 * count
    IN 2 * (IF diff >= 0 THEN diff ELSE -diff) <= total

\* C7: for every emitted record totalGames is the number of records of its
\* group and each percentage is 100*count/totalGames rounded to 2 decimals;
\* 12 games with 5 white wins, 4 black wins and 3 draws give 12, 41.67, 33.33
\* and 25.0.
C7_PercentagesRounded ==
    ag_pc = "written" =>
        \A r \in OutputRecords :
            LET c == ag_groups[r.group].results
                n == c["white"] + c["black"] + c["draw"] + c["other"]
            IN /\ r.totalGames = n
               /\ IsRoundedPercentage(r.winPercentageWhite, c["white"], n)
               /\ IsRoundedPercentage(r.winPercentageBlack, c["black"], n)
               /\ IsRoundedPercentage(r.drawPercentage, c["draw"], n)
               /\ (c["white"] = 5 /\ c["black"] = 4 /\ c["draw"] = 3 /\ c["other"] = 0) =>
                     /\ r.totalGames = 12
                     /\ r.winPercentageWhite = 4167
                     /\ r.winPercentageBlack = 3333
                     /\ r.drawPercentage = 2500

C7_Witness ==
    /\ ag_pc = "written"
    /\ \E r \in OutputRecords :
          LET c == ag_groups[r.group].results
          IN /\ c["white"] = 5 /\ c["black"] = 4 /\ c["draw"] = 3 /\ c["other"] = 0
             /\ r.totalGames = 12
             /\ r.winPercentageWhite = 4167
             /\ r.winPercentageBlack = 3333
             /\ r.drawPercentage = 2500

\* C8: emission guard: every record of the output comes from a group with at
\* least MIN_GAMES_FOR_STATISTICS records whose opening and variation labels
\* are not empty or placeholder values.
C8_EmissionGuard ==
    ag_pc = "written" =>
        \A r \in OutputRecords :
            LET g == ag_groups[r.group]
            IN /\ g.results["white"] + g.results["black"] + g.results["draw"]
                     + g.results["other"] >= MIN_GAMES_FOR_STATISTICS
               /\ g.opening \notin Placeholders
               /\ g.variation \notin Placeholders

\* x is an integer nearest to num/den
IsNearestInteger(x, num, den) ==
    LET diff == x * den - num
    IN 2 * (IF diff >= 0 THEN diff ELSE -diff) <= den

\* C25: directional-score fallback coverage: every emitted record whose
\* position is unavailable (canonical moves unknown, or known but their replay
\* failed) or whose engine evaluation is unavailable carries the score
\* synthesized from winPercentageWhite - winPercentageBlack.
C25_FallbackCoverage ==
    ag_pc = "written" =>
        \A r \in OutputRecords :
            r.evalSource # "engine" =>
                r.openingEval =
                    IntValue(WinDiffEval(r.winPercentageWhite, r.winPercentageBlack))

\* C26: the synthesized directional score is twice the percentage difference
\* rounded to the nearest integer, for positive and negative differences.
C26_SynthesizedIsRounded ==
    ag_pc = "written" =>
        \A r \in OutputRecords :
            r.evalSource = "synthesized" =>
                /\ r.openingEval.kind = "int"
                /\ IsNearestInteger(r.openingEval.val,
                                    2 * (r.winPercentageWhite - r.winPercentageBlack), 100)

\* the records appended to openings_dict under a key the output keeps
KeptRecords ==
    UNION {{openings_dict[i].variations[j] : j \in 1..Len(openings_dict[i].variations)}
           : i \in {k \in 1..Len(openings_dict) : KeptInOutput(openings_dict[k])}}

\* C27: per-group error isolation: an exception raised while one group is
\* processed ends that group only; the aggregation does not abort and every
\* group processed without error is in the output.
C27_GroupErrorIsolation ==
    /\ ag_pc # "aborted"
    /\ (ag_pc \in {"written", "aborted"}) => KeptRecords \subseteq OutputRecords

-----------------------------------------------------------------------------
(* stockfish_engine.py: batch_get_stockfish_evals *)

\* the slots of a fen_list: "" stands for an empty or None slot, "U" for a
\* truthy value that cannot be hashed (a list), on which the lru_cache raises
BatchSlots == {"", "A", "B", "U"}

\* the slots get_stockfish_eval can look up in its cache
HashableSlots == {"A", "B"}

FenLists == UNION {[1..k -> BatchSlots] : k \in 0..MaxBatch}

\* the worker threads of the executor
Workers == 1..MaxWorkers

\* results[idx] = result
ResultSlot_Arrival(idx, yielded) == yielded + 1
ResultSlot(idx, yielded) == idx

\* except Exception as e: print(...): the loop goes on with the next future
AfterTaskError_Abort(pc) == "raised"
AfterTaskError(pc) == pc

\* the as_completed loop ends, and the executor's `with` block is left, when
\* every submitted future is done and was yielded
JoinDone_First(yielded, submitted) == yielded # {} \/ submitted = {}
JoinDone(yielded, submitted) == yielded = submitted

Submitted == DOMAIN futures

\* the indexes the dict comprehension has still to submit
Unsubmitted == {i \in 1..Len(fen_list) : fen_list[i] # "" /\ i \notin Submitted}

\* the tasks waiting in the executor's work queue
Pending == {i \in Submitted : futures[i].state = "pending"}

\* the tasks a worker thread has taken and whose future is not yet done
Running == {i \in Submitted : futures[i].state \in {"running", "calling", "returned"}}

Yielded == {completed[k] : k \in 1..Len(completed)}

Lowest(S) == CHOOSE i \in S : \A j \in S : i <= j

\* the module as batch_get_stockfish_evals finds it, with nothing cached, and
\* one caller record for each worker thread
InitBatch ==
    /\ MatcherIdle /\ ParserIdle /\ AggIdle /\ CdIdle
    /\ \E setup \in EngineSetups :
          /\ stockfish_available = setup.available
          /\ pool_size = IF setup.available THEN PoolSize ELSE 0
          /\ engine_pool = IF setup.available THEN "pool" ELSE "None"
          /\ engines = [i \in 1..setup.handles |-> i]
          /\ handles_made = setup.handles
    /\ pool_lock = 0
    /\ eval_cache = <<>>
    /\ callers = [t \in Workers |-> IdleCaller]
    /\ engine_calls = 0
    /\ pool_users = MaxWorkers
    /\ failed_fens = {}
    /\ cleanup_pc = "idle"
    /\ fen_list \in FenLists
    /\ results = <<>>
    /\ futures = <<>>
    /\ completed = <<>>
    /\ batch_return = <<>>
    /\ batch_pc = "start"

BatchFrame == UNCHANGED <<matcherVars, parserVars, aggVars, cdVars, engineVars>>

\* if not fen_list: return []
BatchReturnEmpty ==
    /\ batch_pc = "start"
    /\ fen_list = <<>>
    /\ batch_return' = <<>>
    /\ batch_pc' = "returned"
    /\ UNCHANGED <<fen_list, results, futures, completed>>
    /\ BatchFrame

\* results = [None] * len(fen_list), and the executor is created
BatchBegin ==
    /\ batch_pc = "start"
    /\ fen_list # <<>>
    /\ results' = [i \in 1..Len(fen_list) |-> NoneValue]
    /\ batch_pc' = "submitting"
    /\ UNCHANGED <<fen_list, futures, completed, batch_return>>
    /\ BatchFrame

\* one executor.submit of the dict comprehension: the next index whose fen is
\* truthy gets a pending future, which the worker threads can take at once
SubmitTask(i) ==
    /\ batch_pc = "submitting"
    /\ Unsubmitted # {}
    /\ i = Lowest(Unsubmitted)
    /\ futures' = [j \in Submitted \cup {i} |->
                      IF j = i THEN [state |-> "pending", value |-> NotCalled,
                                     raised |-> FALSE, worker |-> 0]
                      ELSE futures[j]]
    /\ UNCHANGED <<fen_list, results, completed, batch_return, batch_pc>>
    /\ BatchFrame

\* the comprehension is exhausted: for future in as_completed(future_to_idx)
SubmitDone ==
    /\ batch_pc = "submitting"
    /\ Unsubmitted = {}
    /\ batch_pc' = "collect"
    /\ UNCHANGED <<fen_list, results, futures, completed, batch_return>>
    /\ BatchFrame

\* a worker thread that runs no task takes the oldest task of the work queue
WorkerStart(i, w) ==
    /\ batch_pc \in {"submitting", "collect"}
    /\ Pending # {}
    /\ i = Lowest(Pending)
    /\ TaskOf(w) = 0
    /\ futures' = [futures EXCEPT ![i].state = "running", ![i].worker = w]
    /\ UNCHANGED <<fen_list, results, completed, batch_return, batch_pc>>
    /\ BatchFrame

\* get_stockfish_eval on a fen that cannot be hashed: cached_get_stockfish_eval
\* raises TypeError when it builds the cache key, before the function body
WorkerRaise(i) ==
    /\ batch_pc \in {"submitting", "collect"}
    /\ i \in Submitted
    /\ futures[i].state = "running"
    /\ fen_list[i] = "U"
    /\ futures' = [futures EXCEPT ![i].state = "returned", ![i].raised = TRUE]
    /\ engine_calls' = engine_calls + 1
    /\ UNCHANGED <<fen_list, results, completed, batch_return, batch_pc>>
    /\ UNCHANGED <<stockfish_available, pool_size, engine_pool, engines, pool_lock, handles_made,
                   eval_cache, callers, pool_users, failed_fens, cleanup_pc>>
    /\ UNCHANGED <<matcherVars, parserVars, aggVars, cdVars>>

\* evaluate_fen has returned (idx, result) or an exception has left it: the
\* executor sets the future's result or exception and the future is done
WorkerFinish(i) ==
    /\ batch_pc \in {"submitting", "collect"}
    /\ i \in Submitted
    /\ futures[i].state = "returned"
    /\ futures' = [futures EXCEPT ![i].state = "done"]
    /\ UNCHANGED <<fen_list, results, completed, batch_return, batch_pc>>
    /\ BatchFrame

\* one round of `for future in as_completed(future_to_idx)`: a done future
\* not yet yielded is yielded and its result stored
CollectResult(i) ==
    /\ batch_pc = "collect"
    /\ i \in Submitted
    /\ futures[i].state = "done"
    /\ i \notin Yielded
    /\ ~futures[i].raised
    /\ results' = [results EXCEPT ![ResultSlot(i, Len(completed))] = futures[i].value]
    /\ completed' = Append(completed, i)
    /\ UNCHANGED <<fen_list, futures, batch_return, batch_pc>>
    /\ BatchFrame

\* future.result() raises the task's exception, which the except clause of
\* the loop body catches: no slot is written
CollectError(i) ==
    /\ batch_pc = "collect"
    /\ i \in Submitted
    /\ futures[i].state = "done"
    /\ i \notin Yielded
    /\ futures[i].raised
    /\ completed' = Append(completed, i)
    /\ batch_pc' = AfterTaskError(batch_pc)
    /\ UNCHANGED <<fen_list, results, futures, batch_return>>
    /\ BatchFrame

\* every future was yielded: the executor is shut down and results returned
BatchReturn ==
    /\ batch_pc = "collect"
    /\ JoinDone(Yielded, Submitted)
    /\ batch_return' = results
    /\ batch_pc' = "returned"
    /\ UNCHANGED <<fen_list, results, futures, completed>>
    /\ BatchFrame

\* the steps of the worker threads inside get_stockfish_eval are the steps of
\* the engine pool
NextBatch ==
    \/ BatchReturnEmpty
    \/ BatchBegin
    \/ \E i \in 1..Len(fen_list) : SubmitTask(i)
    \/ SubmitDone
    \/ \E i \in 1..Len(fen_list), w \in Workers : WorkerStart(i, w)
    \/ \E i \in 1..Len(fen_list) : WorkerRaise(i)
    \/ \E w \in Workers, fen \in HashableSlots : EvalHit(w, fen)
    \/ \E w \in Workers, fen \in HashableSlots : CallNoData(w, "eval", fen)
    \/ \E w \in Workers, fen \in HashableSlots : CallStart(w, "eval", fen)
    \/ \E w \in Workers : ReadPoolGet(w)
    \/ \E w \in Workers : AcquireGet(w)
    \/ \E w \in Workers : GetEnginePop(w)
    \/ \E w \in Workers : GetEngineNew(w)
    \/ \E w \in Workers : UseEngine(w)
    \/ \E w \in Workers : ReadPoolReturn(w)
    \/ \E w \in Workers : AcquireReturn(w)
    \/ \E w \in Workers : ReturnEngine(w)
    \/ \E w \in Workers : FinishCall(w)
    \/ \E i \in 1..Len(fen_list) : WorkerFinish(i)
    \/ \E i \in 1..Len(fen_list) : CollectResult(i)
    \/ \E i \in 1..Len(fen_list) : CollectError(i)
    \/ BatchReturn

SpecBatch == InitBatch /\ [][NextBatch]_vars

-----------------------------------------------------------------------------
(* Claims on the engine pool *)

\* thread t is inside get_engine, from `with self.lock` to the return
InGetEngine(t) == callers[t].pc \in {"get_lock", "in_get"}

\* C19: checkout never waits for a handle to be returned: under fair
\* scheduling every get_engine call completes, with a popped or a newly
\* constructed handle or with the constructor's exception, even when the
\* other threads keep their handles forever: no thread stays inside a
\* get_engine call forever, waiting for the lock or holding it.
C19_CheckoutCompletes ==
    \A t \in Threads : []<>(~InGetEngine(t))

C19_Witness ==
    \E t \in Threads, u \in Threads :
        /\ t # u
        /\ callers[u].pc = "use"
        /\ callers[t].pc = "use"
        /\ engines = <<>>
        /\ callers[t].engine > PoolSize

\* thread t holds a handle: get_engine gave it one that it has not yet passed
\* to return_engine
Held(t) == callers[t].got > callers[t].returned

FreeHandles == {engines[i] : i \in 1..Len(engines)}

\* C11: graceful engine absence: with the engine disabled every call of
\* get_stockfish_eval returns None and every call of get_top_stockfish_moves
\* returns [], nothing is raised, and no handle is checked out or constructed.
C11_GracefulEngineAbsence ==
    (~stockfish_available \/ engine_pool = "None") =>
        /\ handles_made = 0
        /\ \A t \in Threads :
              /\ callers[t].pc \in {"idle", "cached", "finish"}
              /\ callers[t].got = 0 /\ callers[t].engine = 0
              /\ ~callers[t].raised /\ ~callers[t].failed
              /\ callers[t].pc # "idle" => callers[t].result = NoData(callers[t].kind)

C11_Witness ==
    /\ ~stockfish_available
    /\ engine_calls = MaxEngineCalls
    /\ \E t \in Threads :
          /\ callers[t].pc = "cached" /\ callers[t].fen = "A" /\ callers[t].result = NoneValue

\* C13: handle exclusivity: no handle is held by two threads at the same time,
\* and no handle is at once in the free list and held by a thread.
C13_HandleExclusivity ==
    /\ \A t \in Threads, u \in Threads :
          (t # u /\ Held(t) /\ Held(u)) => callers[t].engine # callers[u].engine
    /\ \A t \in Threads : Held(t) => callers[t].engine \notin FreeHandles
    /\ \A i \in 1..Len(engines), j \in 1..Len(engines) : i # j => engines[i] # engines[j]

C13_Witness ==
    \E t \in Threads, u \in Threads :
        /\ t # u
        /\ Held(t) /\ Held(u)
        /\ callers[t].pc = "use" /\ callers[u].pc = "ret_lock"
        /\ callers[t].engine <= PoolSize

\* C14: a failure inside the try block (handle construction, set-position or
\* the engine query raising) never reaches the caller: the call returns None
\* (get_stockfish_eval) or [] (get_top_stockfish_moves).
C14_FailureYieldsNoData ==
    \A t \in Threads :
        /\ ~callers[t].raised
        /\ callers[t].failed => callers[t].result = NoData(callers[t].kind)

C14_Witness ==
    \E t \in Threads, u \in Threads :
        /\ t # u
        /\ callers[t].pc = "finish" /\ callers[t].failed /\ callers[t].got = 0
        /\ callers[t].kind = "top" /\ callers[t].result = EmptyList
        /\ callers[u].pc = "finish" /\ callers[u].failed /\ callers[u].got = 1
        /\ callers[u].kind = "eval" /\ callers[u].result = NoneValue

\* C18: pool bound: the free list never holds more than pool_size handles, and
\* return_engine appends the handle only when the free list is below pool_size
\* and otherwise leaves the free list unchanged.
C18_PoolBound ==
    /\ [](Len(engines) <= PoolSize)
    /\ [][\A t \in Threads :
             (callers[t].pc = "in_ret" /\ callers'[t].pc # "in_ret") =>
                 engines' = IF Len(engines) < PoolSize
                            THEN Append(engines, callers[t].engine)
                            ELSE engines]_vars

C18_Witness ==
    \E t \in Threads :
        /\ callers[t].pc = "finish"
        /\ callers[t].returned = 1
        /\ Len(engines) = PoolSize
        /\ callers[t].engine \notin FreeHandles

\* C20: exception-safe release: a call passes the handle it got from
\* get_engine to return_engine exactly once before it ends, on the normal, the
\* unknown-type and the exception path, so no finished call holds a handle.
C20_ReleasedExactlyOnce ==
    \A t \in Threads :
        /\ callers[t].got <= 1
        /\ callers[t].returned <= callers[t].got
        /\ callers[t].pc \in {"finish", "idle"} => ~Held(t)

C20_Witness ==
    \E t \in Threads :
        /\ callers[t].pc = "finish"
        /\ callers[t].kind = "top"
        /\ callers[t].failed
        /\ callers[t].got = 1 /\ callers[t].returned = 1

\* C12: batch alignment: the returned list has the length of fen_list, slot i
\* holds what the worker computed for fen_list[i] (the evaluation of that
\* position or None) whatever the order in which the workers finished, and
\* every empty slot holds None.
C12_BatchAlignment ==
    batch_pc = "returned" =>
        /\ Len(batch_return) = Len(fen_list)
        /\ \A i \in 1..Len(fen_list) :
              IF fen_list[i] = ""
              THEN batch_return[i] = NoneValue
              ELSE /\ batch_return[i] = IF futures[i].raised THEN NoneValue
                                        ELSE futures[i].value
                   /\ batch_return[i] \in {IntValue(35), MateValue, NoneValue}

\* C21: a handle on which set-position or the query raised is discarded: it is
\* not put back in the free list (and so is not handed to a later caller).
C21_FailedHandleDiscarded ==
    \A t \in Threads :
        (callers[t].failed /\ callers[t].got = 1) => callers[t].engine \notin FreeHandles

\* C22: a failure yields no data for that call only: a later
\* get_stockfish_eval of the same position is not answered with the None of
\* the failed call but queries the engine again.
C22_FailureNotRemembered ==
    \A t \in Threads :
        callers[t].pc = "cached" => callers[t].fen \notin failed_fens

\* the number of handles checked out
CheckedOut == Cardinality({t \in Threads : Held(t)})

\* C29: handle conservation: when all pool_size handles exist and at most
\* pool_size threads use the pool at a time, each holding at most one handle,
\* free handles + checked-out handles = pool_size in every state: get_engine
\* constructs no further handle and return_engine drops none.
C29_HandleConservation ==
    (pool_users <= pool_size /\ handles_made >= pool_size) =>
        /\ handles_made = pool_size
        /\ Len(engines) + CheckedOut = pool_size

\* a pool with room for every thread and all its handles made: one thread
\* has given its handle back after a failed call while another thread still
\* uses the handle it checked out
C29_Witness ==
    /\ pool_users = pool_size
    /\ pool_size = MaxThreads
    /\ handles_made = pool_size
    /\ Len(engines) = pool_size - 1
    /\ \E t, u \in Threads :
          /\ t # u
          /\ callers[t].pc = "finish" /\ callers[t].failed /\ callers[t].returned = 1
          /\ callers[u].pc = "use" /\ Held(u)

\* C28: in every interleaving of cleanup_stockfish with evaluation calls in
\* flight no call raises: each returns a score, None or an empty list.
C28_CleanupNeverRaises ==
    \A t \in Threads :
        callers[t].pc = "finish" =>
            /\ ~callers[t].raised
            /\ callers[t].result \in {IntValue(35), MateValue, NoneValue, MovesList, EmptyList}

\* the submitted tasks that failed: the evaluation call answered None (the
\* engine disabled, a failure caught inside the call, an evaluation of unknown
\* type), or an exception left the task
FailedTasks == {i \in Submitted : futures[i].state = "done" /\
                                   (futures[i].raised \/ futures[i].value = NoneValue)}

\* C23: batch failure isolation: a failed task leaves None in its own slot
\* only; the batch still returns, every other task has run to completion and
\* its slot holds its own result.
C23_BatchFailureIsolation ==
    /\ batch_pc # "raised"
    /\ batch_pc = "returned" =>
          /\ \A i \in FailedTasks : batch_return[i] = NoneValue
          /\ \A i \in Submitted \ FailedTasks :
                /\ futures[i].state = "done"
                /\ batch_return[i] = futures[i].value
                /\ batch_return[i] \in {IntValue(35), MateValue}

C23_Witness ==
    /\ batch_pc = "returned"
    /\ fen_list = <<"U", "B", "A">>
    /\ futures[1].raised
    /\ futures[2].value = MateValue
    /\ futures[3].value = NoneValue /\ ~futures[3].raised
    /\ completed = <<3, 1, 2>>
    /\ batch_return = <<NoneValue, MateValue, NoneValue>>

\* C24: batch join: when the batch returns every submitted task has
\* finished: no worker is running, no worker holds an engine handle, and the
\* result slots are not written after the return.
C24_BatchJoin ==
    batch_pc = "returned" =>
        /\ Running = {}
        /\ \A i \in Submitted : futures[i].state = "done"
        /\ \A w \in Workers : callers[w].pc = "idle" /\ ~Held(w)
        /\ results = batch_return

C24_Witness ==
    /\ batch_pc = "returned"
    /\ Cardinality(Submitted) = MaxBatch
    /\ completed = <<2, 3, 1>>
    /\ \A i \in Submitted : futures[i].state = "done"

C12_Witness ==
    /\ batch_pc = "returned"
    /\ fen_list = <<"A", "", "B">>
    /\ completed = <<3, 1>>
    /\ batch_return = <<IntValue(35), NoneValue, MateValue>>

=============================================================================
